---- MODULE Spec2Model ----
(***************************************************************************)
(* Ingestion core of the price-comparison backend: the product resolver    *)
(* (POST /products, create_or_update_product), and the database scrapers   *)
(* that create Product rows and append Price rows.                         *)
(*                                                                         *)
(* The Product table is a sequence of rows in insertion order; a row's     *)
(* product_id is its index.  SQL NULL / Python None is the value Null, a   *)
(* field the request body does not set (exclude_unset) is Unset.           *)
(***************************************************************************)
EXTENDS Integers, Sequences, FiniteSets, TLC

\* ---------------------------------------------------------------- bounds
MaxProducts == 2
MaxTime == 2
MaxTextLen == 3
MaxRuns == 2
MaxCalls == 4
MaxCents == 4
MaxNesting == 22
MaxCats == 2
MaxPages == 2
MaxItems == 2

\* ------------------------------------------------------- value domains
Null == "NULL"
Unset == "UNSET"
Names == {"Milk", "Milk 1L"}
Brands == {"Sante"}
ApiIds == {"7"}
BarCodes == {"123"}
Stores == {"2nabiji", "Spar"}
\* price texts of a product card: a decimal-comma price and a non-number
PriceTexts == {"5,99", "n/a"}

\* ProductBase / ProductCreate: name is required, the rest Optional with
\* default None.  A request body may leave an optional field out (Unset) or
\* send it; bar_code is also drawn as an explicit null.  image_url and
\* subcategory_id are never looked up and are written exactly as brand is;
\* the model carries brand for them.
Fields == {"name", "brand", "api_product_id", "bar_code"}

ProductCreate ==
    [name : Names, brand : Brands \cup {Unset},
     api_product_id : ApiIds \cup {Unset},
     bar_code : BarCodes \cup {Unset, Null}]

NoObs ==
    [name |-> Unset, brand |-> Unset, api_product_id |-> Unset,
     bar_code |-> Unset]

VARIABLES
    products,   \* Product table (committed rows)
    prices,     \* Price table (committed rows)
    pending,    \* Price rows added to the import session, not yet committed
    now,        \* last value read from the clock; every read is later
    pc,         \* position of each concurrent resolver request
    req,        \* request-local state of each concurrent resolver request
    prev,       \* the operation before the last one
    last,       \* the last operation: its input and its outcome
    input,      \* the value a parser or the tree extractor is applied to
    order,      \* iteration order of the alias sets in the running process
    outputs,    \* results of the applications to input, oldest first
    sink,       \* the RowSink of the browser run
    crawl       \* one run of a fetch script: where it is and what it did

storeVars == <<products, prices, pending, now, pc, req, prev, last>>

extractVars == <<input, order, outputs, sink>>

vars == <<products, prices, pending, now, pc, req, prev, last,
          input, order, outputs, sink, crawl>>

Workers == {1, 2}

NoOp ==
    [op |-> "none", obs |-> NoObs, store |-> Null, rule |-> 0, pid |-> 0,
     price |-> Null]

NoRow ==
    [store_id |-> Null, name |-> Null, brand |-> Null,
     api_product_id |-> Null, bar_code |-> Null]

NoReq ==
    [obs |-> NoObs, store |-> Null, pid |-> 0, rule |-> 0, snap |-> NoRow,
     fresh |-> FALSE, overlap |-> FALSE]

\* ------------------------------------------------------------ resolver
\* product_data.get(f): the value sent, None when the field was left out
Get(o, f) == IF o[f] = Unset THEN Null ELSE o[f]

\* product_data = product.dict(exclude_unset=True): the fields that were set
SetFields(o) == {f \in Fields : o[f] # Unset}

\* rule 1: filter_by(api_product_id=api_product_id), only when not None
ById(tbl, o) ==
    IF Get(o, "api_product_id") # Null
    THEN {i \in 1..Len(tbl) : tbl[i].api_product_id = o.api_product_id}
    ELSE {}

\* rule 2: filter_by(name=.., brand=.., bar_code=..) with product_data.get,
\* so a field left out is compared with None, which SQLAlchemy renders IS NULL
ByKey(tbl, o) ==
    {i \in 1..Len(tbl) :
        /\ tbl[i].name = Get(o, "name")
        /\ tbl[i].brand = Get(o, "brand")
        /\ tbl[i].bar_code = Get(o, "bar_code")}

\* rule 2 consulted before rule 1
CandidatesKeyFirst(tbl, o) ==
    IF ByKey(tbl, o) # {} THEN ByKey(tbl, o) ELSE ById(tbl, o)

\* the rows .first() may return: rule 1 first, rule 2 only if rule 1 gave None
Candidates(tbl, o) ==
    IF ById(tbl, o) # {} THEN ById(tbl, o) ELSE ByKey(tbl, o)

RuleOf(tbl, o) ==
    IF ById(tbl, o) # {} THEN 1 ELSE IF ByKey(tbl, o) # {} THEN 2 ELSE 3

\* product.dict() without exclude_unset: the fields left out overwrite too
OverwriteAll(row, o) ==
    [f \in DOMAIN row |-> IF f \in Fields THEN Get(o, f) ELSE row[f]]

\* fill-in instead of last-write-wins: a column that has a value keeps it
OverwriteMissing(row, o) ==
    [f \in DOMAIN row |->
        IF f \in SetFields(o) /\ row[f] = Null THEN o[f] ELSE row[f]]

\* for field, value in product_data.items(): setattr(db_product, field, value)
Overwrite(row, o) ==
    [f \in DOMAIN row |-> IF f \in SetFields(o) THEN o[f] ELSE row[f]]

\* models.Product(**new_product_kwargs): the allow-listed fields that were
\* set; every other column, store_id included, stays NULL
NewProduct(o) ==
    [store_id |-> Null, name |-> Get(o, "name"), brand |-> Get(o, "brand"),
     api_product_id |-> Get(o, "api_product_id"),
     bar_code |-> Get(o, "bar_code")]

\* create_or_update_product as one transaction.  s is the store the caller
\* ingests for; ProductCreate has no store field, so s never reaches the
\* query.  .first() without ORDER BY returns any one of the matching rows.
Resolve(o, s) ==
    /\ \/ /\ Candidates(products, o) = {}
          /\ Len(products) < MaxProducts
          /\ products' = Append(products, NewProduct(o))
          /\ last' = [op |-> "resolve", obs |-> o, store |-> s,
                      rule |-> 3, pid |-> Len(products) + 1, price |-> Null]
       \/ \E i \in Candidates(products, o) :
             /\ products' = [products EXCEPT ![i] = Overwrite(products[i], o)]
             /\ last' = [op |-> "resolve", obs |-> o, store |-> s,
                         rule |-> RuleOf(products, o), pid |-> i,
                         price |-> Null]
    /\ prev' = last
    /\ UNCHANGED <<prices, pending, now, pc, req>>
    /\ UNCHANGED extractVars
    /\ UNCHANGED crawl

\* a request of a caller that names no store
ResolveAny == \E o \in ProductCreate : Resolve(o, Null)

\* requests made while ingesting for a store: name and external id only,
\* the shape of what the scrapers know about a product
IngestObs == {o \in ProductCreate : o.brand = Unset /\ o.bar_code = Unset}

ResolveFor == \E o \in IngestObs, s \in Stores : Resolve(o, s)

\* ------------------------------------------------------------ scrapers
\* Product(name=name, store_id=store.id, ...): the scrapers set no brand,
\* external id or barcode
ScrapedProduct(name, s) ==
    [store_id |-> s, name |-> name, brand |-> Null, api_product_id |-> Null,
     bar_code |-> Null]

\* db.query(Product).filter_by(name=name, store_id=store.id)
ByNameStore(tbl, name, s) ==
    {i \in 1..Len(tbl) : tbl[i].name = name /\ tbl[i].store_id = s}

\* Decimal(price_text.replace("GEL sign", "").replace(",", ".")):
\* InvalidOperation (Null here) for a text that is not a number
DecimalOf(t) == IF t = "5,99" THEN "5.99" ELSE Null

\* float(raw_price.replace(..)) with raw_price "0" when the card has no
\* price element, and 0.0 on ValueError
FloatOf(t) == IF t = "5,99" THEN "5.99" ELSE "0.0"

\* one Price row per product, rewritten in place
AddPriceUpsert(tbl, pid, p, t) ==
    IF \E i \in 1..Len(tbl) : tbl[i].product_id = pid
    THEN [i \in 1..Len(tbl) |->
            IF tbl[i].product_id = pid
            THEN [product_id |-> pid, price |-> p, date |-> t]
            ELSE tbl[i]]
    ELSE Append(tbl, [product_id |-> pid, price |-> p, date |-> t])

\* Price(product_id=.., price=.., date=datetime.utcnow()); db.add(new_price)
AddPrice(tbl, pid, p, t) ==
    Append(tbl, [product_id |-> pid, price |-> p, date |-> t])

ScrapedObs(name) == [NoObs EXCEPT !.name = name]

\* 2nabiji main(), one product card of the inner loop.  name is Null when the
\* card has no title element: the AttributeError is caught and the card
\* skipped.  An unparseable price skips the card before any database access.
Item2nabiji(name, text) ==
    LET s == "2nabiji"
        p == DecimalOf(text)
    IN  /\ prev' = last
        /\ UNCHANGED <<pending, pc, req>>
        /\ UNCHANGED extractVars
        /\ UNCHANGED crawl
        /\ \/ /\ name = Null \/ p = Null
              /\ last' = [op |-> "item_2nabiji", obs |-> ScrapedObs(name),
                          store |-> s, rule |-> 0, pid |-> 0, price |-> Null]
              /\ UNCHANGED <<products, prices, now>>
           \/ /\ name # Null /\ p # Null
              /\ now < MaxTime
              /\ now' = now + 1
              /\ \/ /\ ByNameStore(products, name, s) = {}
                    /\ Len(products) < MaxProducts
                    /\ products' = Append(products, ScrapedProduct(name, s))
                    /\ prices' = AddPrice(prices, Len(products) + 1, p, now')
                    /\ last' = [op |-> "item_2nabiji",
                                obs |-> ScrapedObs(name), store |-> s,
                                rule |-> 3, pid |-> Len(products) + 1,
                                price |-> p]
                 \/ \E i \in ByNameStore(products, name, s) :
                       /\ products' = products
                       /\ prices' = AddPrice(prices, i, p, now')
                       /\ last' = [op |-> "item_2nabiji",
                                   obs |-> ScrapedObs(name), store |-> s,
                                   rule |-> 2, pid |-> i, price |-> p]

\* spar_product_import fetch_and_store_products(), one card of a page.  A
\* card without a name element is skipped.  The product, when new, is
\* committed at once, and that commit also writes the Price rows the session
\* holds; the card's own Price row is added to the session and waits for the
\* commit at the end of the page.
ItemSpar(name, text) ==
    LET s == "Spar"
        p == FloatOf(text)
    IN  /\ prev' = last
        /\ UNCHANGED <<pc, req>>
        /\ UNCHANGED extractVars
        /\ UNCHANGED crawl
        /\ \/ /\ name = Null
              /\ last' = [op |-> "item_spar", obs |-> ScrapedObs(name),
                          store |-> s, rule |-> 0, pid |-> 0, price |-> Null]
              /\ UNCHANGED <<products, prices, pending, now>>
           \/ /\ name # Null
              /\ now < MaxTime
              /\ now' = now + 1
              /\ \/ /\ ByNameStore(products, name, s) = {}
                    /\ Len(products) < MaxProducts
                    /\ products' = Append(products, ScrapedProduct(name, s))
                    /\ prices' = prices \o pending
                    /\ pending' = AddPrice(<<>>, Len(products) + 1, p, now')
                    /\ last' = [op |-> "item_spar", obs |-> ScrapedObs(name),
                                store |-> s, rule |-> 3,
                                pid |-> Len(products) + 1, price |-> p]
                 \/ \E i \in ByNameStore(products, name, s) :
                       /\ UNCHANGED <<products, prices>>
                       /\ pending' = AddPrice(pending, i, p, now')
                       /\ last' = [op |-> "item_spar",
                                   obs |-> ScrapedObs(name), store |-> s,
                                   rule |-> 2, pid |-> i, price |-> p]

\* db.commit() at the end of a page of the Spar import
PageCommitSpar ==
    /\ pending # <<>>
    /\ prices' = prices \o pending
    /\ pending' = <<>>
    /\ prev' = last
    /\ last' = [NoOp EXCEPT !.op = "commit_spar", !.store = "Spar"]
    /\ UNCHANGED <<products, now, pc, req>>
    /\ UNCHANGED extractVars
    /\ UNCHANGED crawl

Scrape2nabiji ==
    \E name \in Names \cup {Null}, text \in PriceTexts : Item2nabiji(name, text)

ScrapeSpar ==
    \E name \in Names \cup {Null}, text \in PriceTexts : ItemSpar(name, text)

\* --------------------------------------------- concurrent resolver calls
\* FastAPI runs the synchronous endpoint in a thread pool, each request with
\* its own session; every statement reads the rows committed so far.

\* the UPDATE the unit of work emits at commit: the attributes whose value
\* differs from the one loaded by the query
Flush(row, snap, o) ==
    [f \in DOMAIN row |->
        IF f \in SetFields(o) /\ o[f] # snap[f] THEN o[f] ELSE row[f]]

\* line 16-20: the request arrives and the query of rule 1 runs
Begin(w, o, s) ==
    /\ pc[w] = "idle"
    /\ Len(products) + Cardinality({v \in Workers : pc[v] # "idle"}) < MaxProducts
    /\ LET others == \E v \in Workers \ {w} : pc[v] # "idle"
           r == [obs |-> o, store |-> s, pid |-> 0, rule |-> 0,
                 snap |-> NoRow, fresh |-> Candidates(products, o) = {},
                 overlap |-> others]
       IN  \/ /\ ById(products, o) = {}
              /\ pc' = [pc EXCEPT ![w] = "query2"]
              /\ req' = [v \in Workers |->
                          IF v = w THEN r
                          ELSE IF pc[v] # "idle"
                               THEN [req[v] EXCEPT !.overlap = TRUE]
                               ELSE req[v]]
           \/ \E i \in ById(products, o) :
                 /\ pc' = [pc EXCEPT ![w] = "write"]
                 /\ req' = [v \in Workers |->
                             IF v = w
                             THEN [r EXCEPT !.pid = i, !.rule = 1,
                                            !.snap = products[i]]
                             ELSE IF pc[v] # "idle"
                                  THEN [req[v] EXCEPT !.overlap = TRUE]
                                  ELSE req[v]]
    /\ UNCHANGED <<products, prices, pending, now, prev, last>>
    /\ UNCHANGED extractVars
    /\ UNCHANGED crawl

\* line 21-26: rule 1 gave None, the query of rule 2 runs
Query2(w) ==
    /\ pc[w] = "query2"
    /\ pc' = [pc EXCEPT ![w] = "write"]
    /\ \/ /\ ByKey(products, req[w].obs) = {}
          /\ req' = [req EXCEPT ![w].rule = 3]
       \/ \E i \in ByKey(products, req[w].obs) :
             req' = [req EXCEPT ![w].pid = i, ![w].rule = 2,
                                ![w].snap = products[i]]
    /\ UNCHANGED <<products, prices, pending, now, prev, last>>
    /\ UNCHANGED extractVars
    /\ UNCHANGED crawl

\* line 27-35: setattr or db.add, then db.commit() writes and publishes
Commit(w) ==
    /\ pc[w] = "write"
    /\ pc' = [pc EXCEPT ![w] = "idle"]
    /\ IF req[w].pid = 0
       THEN products' = Append(products, NewProduct(req[w].obs))
       ELSE products' = [products EXCEPT ![req[w].pid] =
                            Flush(@, req[w].snap, req[w].obs)]
    /\ prev' = last
    /\ last' = [op |-> "resolve", obs |-> req[w].obs, store |-> req[w].store,
                rule |-> req[w].rule,
                pid |-> IF req[w].pid = 0 THEN Len(products) + 1
                        ELSE req[w].pid,
                price |-> Null]
    /\ UNCHANGED <<prices, pending, now, req>>
    /\ UNCHANGED extractVars
    /\ UNCHANGED crawl

BeginAny == \E w \in Workers, o \in IngestObs, s \in Stores : Begin(w, o, s)

Query2Any == \E w \in Workers : Query2(w)

CommitAny == \E w \in Workers : Commit(w)

\* ------------------------------------------------------- JSON values
\* A decoded JSON value: null, a string (a tuple of characters), a number
\* (held in hundredths), a map (its entries in document order) or a list.
NullNode == [kind |-> "null", s |-> <<>>, n |-> 0, kids |-> <<>>]

Str(t) == [kind |-> "str", s |-> t, n |-> 0, kids |-> <<>>]

Num(c) == [kind |-> "num", s |-> <<>>, n |-> c, kids |-> <<>>]

Entry(k, v) == [key |-> k, node |-> v]

Map(kv) == [kind |-> "map", s |-> <<>>, n |-> 0, kids |-> kv]

List(xs) ==
    [kind |-> "seq", s |-> <<>>, n |-> 0,
     kids |-> [i \in 1..Len(xs) |-> Entry("", xs[i])]]

\* ------------------------------------------------------------ as_price
Digits == {"0", "1", "2", "3", "4", "5", "6", "7", "8", "9"}

DigitVal(c) ==
    CASE c = "0" -> 0 [] c = "1" -> 1 [] c = "2" -> 2 [] c = "3" -> 3
      [] c = "4" -> 4 [] c = "5" -> 5 [] c = "6" -> 6 [] c = "7" -> 7
      [] c = "8" -> 8 [] c = "9" -> 9

\* int() of a run of digits
RECURSIVE IntOf(_)
IntOf(t) ==
    IF t = <<>> THEN 0
    ELSE 10 * IntOf(SubSeq(t, 1, Len(t) - 1)) + DigitVal(t[Len(t)])

NoPrice == [ok |-> FALSE, cents |-> 0]

Price(c) == [ok |-> TRUE, cents |-> c]

\* the separator class of the pattern without the comma
SeparatorsDotOnly == {"."}

\* the separator class [.,] of the pattern
Separators == {".", ","}

\* re.search(r"([0-9]+(?:[.,][0-9]{1,2})?)", s) and float(group.replace(",",
\* ".")): the leftmost run of digits, then at most one separator followed by
\* one or two digits; None when s has no digit
AsPriceStr(t) ==
    LET at == {i \in 1..Len(t) : t[i] \in Digits}
    IN  IF at = {} THEN NoPrice
        ELSE
          LET i == CHOOSE a \in at : \A b \in at : a <= b
              j == CHOOSE e \in i..Len(t) :
                      /\ \A k \in i..e : t[k] \in Digits
                      /\ (e = Len(t) \/ t[e + 1] \notin Digits)
              frac1 == /\ j + 2 <= Len(t)
                       /\ t[j + 1] \in Separators
                       /\ t[j + 2] \in Digits
              frac2 == frac1 /\ j + 3 <= Len(t) /\ t[j + 3] \in Digits
          IN  Price(100 * IntOf(SubSeq(t, i, j))
                    + (IF frac2
                       THEN 10 * DigitVal(t[j + 2]) + DigitVal(t[j + 3])
                       ELSE IF frac1 THEN 10 * DigitVal(t[j + 2]) ELSE 0))

\* as_price(v): None for None, float(v) for a number, the pattern otherwise
AsPrice(v) ==
    IF v.kind = "null" THEN NoPrice
    ELSE IF v.kind = "num" THEN Price(v.n)
    ELSE AsPriceStr(v.s)

\* the characters of a price text; "L" stands for the lari sign
PriceChars == {"1", "5", ",", ".", " ", "L"}

RECURSIVE TextsOfLen(_)
TextsOfLen(k) ==
    IF k = 0 THEN {<<>>}
    ELSE {Append(t, c) : t \in TextsOfLen(k - 1), c \in PriceChars}

NotableTexts ==
    {<<"1", "2", ",", "5", "0", " ", "L">>, <<"1", "2", ".", "5", "0">>,
     <<"1", ",", "2", "3", "4", ".", "5", "0">>,
     <<"1", ".", "2", "3", "4", ",", "5", "0">>,
     <<"n", "/", "a">>, <<"5", ",", "9", "9">>}

PriceInputs ==
    {Str(t) : t \in UNION {TextsOfLen(k) : k \in 0..MaxTextLen} \cup NotableTexts}
        \cup {NullNode, Num(0), Num(599)}

\* a caller applies as_price to a value
ParsePrice ==
    /\ input \in PriceInputs
    /\ outputs = <<>>
    /\ outputs' = <<AsPrice(input)>>
    /\ UNCHANGED <<input, order, sink>>
    /\ UNCHANGED storeVars
    /\ UNCHANGED crawl

\* ------------------------------------------------------ tree extractor
NAME_KEYS ==
    {"name", "title", "productName", "product_name", "caption", "label",
     "fullName", "displayName"}

PRICE_KEYS ==
    {"price", "currentPrice", "salePrice", "unitPrice", "priceValue",
     "amount", "value", "finalPrice"}

IMAGE_KEYS ==
    {"image", "imageUrl", "imageURL", "img", "thumbnail", "picture", "photo",
     "imageurl", "image_src"}

CATEGORY_KEYS ==
    {"category", "categoryName", "category_name", "group", "groupName",
     "categoryTitle"}

SUBCATEGORY_KEYS ==
    {"subcategory", "subCategory", "subcategoryName", "sub_category_name",
     "subGroup", "subgroupName", "subCategoryTitle"}

Slots == {"cat", "sub", "name", "price", "image"}

DefaultMaxDepth == 20

\* the keys the drawn trees use
TreeKeys ==
    {"name", "title", "price", "amount", "image", "category", "items", "data"}

Perms(S) ==
    {q \in [1..Cardinality(S) -> S] : \A i, j \in DOMAIN q : i # j => q[i] # q[j]}

\* The alias collections are Python sets of strings: a process iterates each
\* in one order, which string hash randomisation fixes at start-up and which
\* differs from process to process.  Only the relative order of the aliases
\* a tree uses can show, so an order lists those.
Orders ==
    {[cat |-> c, sub |-> s, name |-> n, price |-> p, image |-> i] :
        c \in Perms(CATEGORY_KEYS \cap TreeKeys),
        s \in Perms(SUBCATEGORY_KEYS \cap TreeKeys),
        n \in Perms(NAME_KEYS \cap TreeKeys),
        p \in Perms(PRICE_KEYS \cap TreeKeys),
        i \in Perms(IMAGE_KEYS \cap TreeKeys)}

HasKey(node, k) == \E i \in 1..Len(node.kids) : node.kids[i].key = k

ValueAt(node, k) ==
    node.kids[CHOOSE i \in 1..Len(node.kids) : node.kids[i].key = k].node

\* d[k] not in (None, "", [], {})
IsEmptyVal(v) ==
    \/ v.kind = "null"
    \/ v.kind = "str" /\ v.s = <<>>
    \/ v.kind \in {"map", "seq"} /\ v.kids = <<>>

\* for k in keys: the value of the first alias, in iteration order, that the
\* map holds with a non-empty value; None (NullNode) when there is none
RECURSIVE FirstFrom(_, _, _)
FirstFrom(d, keys, i) ==
    IF i > Len(keys) THEN NullNode
    ELSE IF d.kind = "map" /\ HasKey(d, keys[i])
            /\ ~IsEmptyVal(ValueAt(d, keys[i]))
         THEN ValueAt(d, keys[i])
         ELSE FirstFrom(d, keys, i + 1)

FirstNonEmpty(d, keys) == FirstFrom(d, keys, 1)

\* truth value of a Python object
Truthy(v) ==
    CASE v.kind = "null" -> FALSE
      [] v.kind = "str" -> v.s # <<>>
      [] v.kind = "num" -> v.n # 0
      [] OTHER -> v.kids # <<>>

\* str.strip()
RECURSIVE Strip(_)
Strip(t) ==
    IF t = <<>> THEN t
    ELSE IF t[1] = " " THEN Strip(Tail(t))
    ELSE IF t[Len(t)] = " " THEN Strip(SubSeq(t, 1, Len(t) - 1))
    ELSE t

\* str(v) of a string; names and images are drawn as strings
StrOf(v) == v.s

EmptyCtx == [sl \in Slots |-> NullNode]

\* new_ctx made from the map alone: nothing is inherited
MergeLocal(node, ctx, ord) ==
    [sl \in Slots |-> FirstNonEmpty(node, ord[sl])]

\* new_ctx in which an inherited slot is kept and the map fills only the rest
MergeKeepInherited(node, ctx, ord) ==
    [sl \in Slots |->
        IF ctx[sl].kind # "null" THEN ctx[sl] ELSE FirstNonEmpty(node, ord[sl])]

\* new_ctx: a slot found at this map replaces the inherited one
Merge(node, ctx, ord) ==
    [sl \in Slots |->
        IF FirstNonEmpty(node, ord[sl]).kind # "null"
        THEN FirstNonEmpty(node, ord[sl]) ELSE ctx[sl]]

\* emits without looking at the name
LooksLikeProductNoName(c) == AsPrice(c["price"]).ok \/ Truthy(c["image"])

\* if name and (price is not None or image)
LooksLikeProduct(c) ==
    Truthy(c["name"]) /\ (AsPrice(c["price"]).ok \/ Truthy(c["image"]))

\* the arguments of sink.add(...)
RowOf(c) ==
    [cat |-> c["cat"], sub |-> c["sub"], name |-> Strip(StrOf(c["name"])),
     image |-> Strip(StrOf(c["image"])), price |-> AsPrice(c["price"])]

\* returns one level later
TooDeepLate(depth, maxDepth) == depth > maxDepth + 1

\* if depth > max_depth: return
TooDeep(depth, maxDepth) == depth > maxDepth

\* extract_items_merged: the sink.add calls it makes, in order
RECURSIVE Emits(_, _, _, _, _)
RECURSIVE EmitsKids(_, _, _, _, _, _)
Emits(node, ctx, depth, maxDepth, ord) ==
    IF TooDeep(depth, maxDepth) THEN <<>>
    ELSE IF node.kind = "map"
    THEN LET c == Merge(node, ctx, ord)
         IN  (IF LooksLikeProduct(c) THEN <<RowOf(c)>> ELSE <<>>)
                \o EmitsKids(node.kids, 1, c, depth + 1, maxDepth, ord)
    ELSE IF node.kind = "seq"
    THEN EmitsKids(node.kids, 1, ctx, depth + 1, maxDepth, ord)
    ELSE <<>>

\* the loop over the children with one context object updated in place: what
\* a child map found is still there for the children after it
RECURSIVE EmitsKidsShared(_, _, _, _, _, _)
EmitsKidsShared(kids, i, ctx, depth, maxDepth, ord) ==
    IF i > Len(kids) THEN <<>>
    ELSE Emits(kids[i].node, ctx, depth, maxDepth, ord)
            \o EmitsKidsShared(kids, i + 1,
                    IF kids[i].node.kind = "map"
                    THEN Merge(kids[i].node, ctx, ord) ELSE ctx,
                    depth, maxDepth, ord)

EmitsKids(kids, i, ctx, depth, maxDepth, ord) ==
    IF i > Len(kids) THEN <<>>
    ELSE Emits(kids[i].node, ctx, depth, maxDepth, ord)
            \o EmitsKids(kids, i + 1, ctx, depth, maxDepth, ord)

\* ---- the trees drawn
Absent == [kind |-> "absent", s |-> <<>>, n |-> 0, kids |-> <<>>]

OptEntry(k, v) == IF v = Absent THEN <<>> ELSE <<Entry(k, v)>>

Leaf(nm, ti, pr, am, im) ==
    Map(OptEntry("name", nm) \o OptEntry("title", ti) \o OptEntry("price", pr)
            \o OptEntry("amount", am) \o OptEntry("image", im))

LariText == <<"1", "2", ",", "5", "0", " ", "L">>

Leaves ==
    {Leaf(nm, ti, pr, am, im) :
        nm \in {Absent, Str(<<>>), Str(<<" ">>), Str(<<"A">>)},
        ti \in {Absent, Str(<<"B">>)},
        pr \in {Absent, Str(<<"x">>), Str(LariText)},
        am \in {Absent, Str(<<"7">>)},
        im \in {Absent, Str(<<"i">>)}}

SmallLeaves ==
    {Leaf(Str(<<"A">>), Absent, Str(LariText), Absent, Absent),
     Leaf(Str(<<"B">>), Absent, Absent, Absent, Str(<<"i">>)),
     Leaf(Absent, Absent, Str(<<"7">>), Absent, Absent)}

Trees ==
    Leaves
    \cup {List(<<l>>) : l \in Leaves}
    \cup {Map(<<Entry("category", Str(<<"D">>)), Entry("items", List(<<l>>))>>) :
            l \in Leaves}
    \cup {Map(<<Entry("name", Str(<<"P">>)), Entry("data", l)>>) : l \in Leaves}
    \cup {Map(<<Entry("category", Str(<<"D">>)),
                Entry("items", List(<<l1, l2>>))>>) :
            l1 \in SmallLeaves, l2 \in SmallLeaves}
    \cup {Map(<<Entry("category", Str(<<"D">>)), Entry("name", Str(<<"P">>)),
                Entry("data", l)>>) :
            l \in SmallLeaves}

\* on_response: extract_items_merged(data, {}, sink) on a decoded body
Extract ==
    /\ input \in Trees
    /\ Len(outputs) < MaxRuns
    /\ outputs' = Append(outputs, [ord |-> order,
                                   rows |-> Emits(input, EmptyCtx, 0, DefaultMaxDepth, order)])
    /\ UNCHANGED <<input, order, sink>>
    /\ UNCHANGED storeVars
    /\ UNCHANGED crawl

\* the script is started again: a new process with its own set order
Restart ==
    /\ input \in Trees
    /\ outputs # <<>>
    /\ Len(outputs) < MaxRuns
    /\ \E o \in Orders : order' = o
    /\ UNCHANGED <<input, outputs, sink>>
    /\ UNCHANGED storeVars
    /\ UNCHANGED crawl

\* -------------------------------------------------------------- RowSink
\* x or "": the text of a string, "" for None and for ""
TextOrEmpty(v) == IF Truthy(v) THEN StrOf(v) ELSE <<>>

\* "" if price is None else f"{price}": the text of a float names the float
PriceKey(price) == IF price.ok THEN <<price.cents>> ELSE <<>>

\* key = (str(cat or ""), str(sub or ""), str(name or ""), str(image or ""), ...)
SinkKey(c) ==
    <<TextOrEmpty(c.cat), TextOrEmpty(c.sub), c.name, c.image, PriceKey(c.price)>>

\* writerow([cat or "", sub or "", name or "", image or "", price or ""])
WrittenRow(c) ==
    [cat |-> TextOrEmpty(c.cat), sub |-> TextOrEmpty(c.sub), name |-> c.name,
     image |-> c.image, price |-> c.price]

\* writes whether or not the key was seen
SinkAddAlways(s, c) ==
    [seen |-> s.seen \cup {SinkKey(c)}, rows |-> Append(s.rows, WrittenRow(c)),
     count |-> s.count + 1]

\* RowSink.add
SinkAdd(s, c) ==
    IF SinkKey(c) \in s.seen THEN s
    ELSE [seen |-> s.seen \cup {SinkKey(c)},
          rows |-> Append(s.rows, WrittenRow(c)),
          count |-> s.count + 1]

RECURSIVE AddAll(_, _)
AddAll(s, calls) ==
    IF calls = <<>> THEN s ELSE AddAll(SinkAdd(s, Head(calls)), Tail(calls))

\* bodies seen by the response callback while the sink is open
SinkTrees ==
    SmallLeaves
    \cup {Map(<<Entry("category", Str(<<"D">>)),
                Entry("items", List(<<l1, l2>>))>>) :
            l1 \in SmallLeaves, l2 \in SmallLeaves}

\* cards read from the page: name, image and price text, each possibly null
DomItems ==
    {[name |-> Str(<<"A">>), image |-> NullNode, price |-> Str(LariText)],
     [name |-> Str(<<"B">>), image |-> Str(<<"i">>), price |-> NullNode],
     [name |-> NullNode, image |-> NullNode, price |-> NullNode]}

DomLists == {<<a>> : a \in DomItems} \cup {<<a, b>> : a \in DomItems, b \in DomItems}

\* sink.add(cat_guess, sub_guess, it.get("name"), it.get("image"), price);
\* add() uses name and image only as `name or ""`
DomCall(cat, sub, it) ==
    [cat |-> cat, sub |-> sub, name |-> TextOrEmpty(it.name),
     image |-> TextOrEmpty(it.image), price |-> AsPrice(it.price)]

\* on_response with the sink: every record of the body goes through add();
\* outputs keeps the add() calls made so far
OnResponse ==
    \E t \in SinkTrees :
        LET calls == Emits(t, EmptyCtx, 0, DefaultMaxDepth, order)
        IN  /\ Len(outputs) + Len(calls) <= MaxCalls
            /\ sink' = AddAll(sink, calls)
            /\ outputs' = outputs \o calls
            /\ UNCHANGED <<input, order>>
            /\ UNCHANGED storeVars
            /\ UNCHANGED crawl

\* dom_scrape_products: the loop over the cards of one page
DomScrape ==
    \E items \in DomLists, cat \in {NullNode, Str(<<"D">>)} :
        LET calls == [i \in 1..Len(items) |-> DomCall(cat, NullNode, items[i])]
        IN  /\ Len(outputs) + Len(calls) <= MaxCalls
            /\ sink' = AddAll(sink, calls)
            /\ outputs' = outputs \o calls
            /\ UNCHANGED <<input, order>>
            /\ UNCHANGED storeVars
            /\ UNCHANGED crawl

\* ------------------------------------------------- Spar API sale flag
\* bool(product.get("previousPrice")): absent, null and 0 are all false
IsOnSale(product) ==
    IF HasKey(product, "previousPrice")
    THEN Truthy(ValueAt(product, "previousPrice")) ELSE FALSE

\* str(True), str(False)
StrOfBool(b) == IF b THEN "True" ELSE "False"

\* a product object of the Spar API: a price and, possibly, a previous price
SaleProducts ==
    {Map(<<Entry("price", Num(c))>> \o OptEntry("previousPrice", pp)) :
        c \in 0..MaxCents,
        pp \in {Absent, NullNode} \cup {Num(d) : d \in 0..MaxCents}}

\* "Spar (New 2).py" parse_product: the fields the flag is about
ParseProduct ==
    /\ input \in SaleProducts
    /\ outputs = <<>>
    /\ outputs' = <<[by |-> "parse_product",
                     flag |-> StrOfBool(IsOnSale(input))]>>
    /\ UNCHANGED <<input, order, sink>>
    /\ UNCHANGED storeVars
    /\ UNCHANGED crawl

\* "spar new 3 .py" parse_and_collect_products, one product of the list
ParseAndCollect ==
    /\ input \in SaleProducts
    /\ outputs = <<>>
    /\ outputs' = <<[by |-> "parse_and_collect_products",
                     flag |-> IsOnSale(input)]>>
    /\ UNCHANGED <<input, order, sink>>
    /\ UNCHANGED storeVars
    /\ UNCHANGED crawl

\* ------------------------------------------- a category with its items
ItemNames == {<<"A">>, <<"B">>}

ItemPrices == {LariText, <<"7">>}

\* {"name": .., "price": ..}
ItemMaps ==
    {Map(<<Entry("name", Str(nm)), Entry("price", Str(pr))>>) :
        nm \in ItemNames, pr \in ItemPrices}

ItemLists == UNION {[1..k -> ItemMaps] : k \in 1..MaxItems}

\* {"category": "D", "items": [..]}
CategoryTree(items) ==
    Map(<<Entry("category", Str(<<"D">>)), Entry("items", List(items))>>)

\* on_response for the first body of a run: the sink is still empty
ExtractToSink ==
    /\ input.kind = "map"
    /\ outputs = <<>>
    /\ sink.count = 0
    /\ LET calls == Emits(input, EmptyCtx, 0, DefaultMaxDepth, order)
       IN  /\ calls # <<>>
           /\ sink' = AddAll(sink, calls)
           /\ outputs' = calls
    /\ UNCHANGED <<input, order>>
    /\ UNCHANGED storeVars
    /\ UNCHANGED crawl

\* ------------------------------------------------ fetch with retries
MAX_RETRIES == 3

Fetchers == {"get_soup", "get_json"}

\* what a request meets: a good answer, no answer in time, an error status,
\* or a body that is not what was asked for
Outcomes == {"ok", "timeout", "http_error", "bad_body"}

\* requests.get and raise_for_status pass; response.json() raises on a body
\* that is not JSON, while BeautifulSoup takes any text
Succeeds(fn, outcome) ==
    outcome = "ok" \/ (fn = "get_soup" /\ outcome = "bad_body")

\* one attempt too many
MayAttemptInclusive(done, retries) == done <= retries

\* for attempt in range(retries)
MayAttempt(done, retries) == done < retries

\* get_soup / get_json, one pass of the loop: the request, and on any
\* exception the warning and the sleep
FetchAttempt ==
    /\ crawl.script \in Fetchers
    /\ crawl.result = "running"
    /\ MayAttempt(crawl.attempt, MAX_RETRIES)
    /\ IF Succeeds(crawl.script, crawl.plan[crawl.attempt + 1])
       THEN crawl' = [crawl EXCEPT !.trace = Append(@, "request"),
                                   !.result = "ok"]
       ELSE crawl' = [crawl EXCEPT !.trace = @ \o <<"request", "sleep">>,
                                   !.attempt = @ + 1]
    /\ UNCHANGED storeVars
    /\ UNCHANGED extractVars

\* the loop is exhausted: logging.error(..); return None
FetchGiveUp ==
    /\ crawl.script \in Fetchers
    /\ crawl.result = "running"
    /\ ~MayAttempt(crawl.attempt, MAX_RETRIES)
    /\ crawl' = [crawl EXCEPT !.result = "none"]
    /\ UNCHANGED storeVars
    /\ UNCHANGED extractVars

\* -------------------------------------------- paginated listing crawls
\* "new2": Spar (New 2).py main / fetch_all_products, one category, get_json
\* "new3": spar new 3 .py run_scrape, categories from the API, one request
\*         per page; a failed subcategory fetch gives the flat listing
\* "html": Spar (NEW).py scrape_site / fetch_product_links, get_soup
PageScripts == {"new2", "new3", "html"}

\* a continuation field of a page body: true, false, null, or not there
FieldVals == {"true", "false", "null", "absent"}

\* the "pagination" member: not there, null, or an object whose hasNext is
\* one of the field values
PaginationVals == {"no_pagination", "pagination_null"} \cup FieldVals

NoResp == [got |-> FALSE, items |-> 0, hnp |-> "absent",
           pag |-> "no_pagination", hn |-> "absent", none |-> TRUE]

\* the fetch gave nothing (every attempt failed)
FailedResp == [NoResp EXCEPT !.none = FALSE]

\* a body with `items` products and the three continuation members
Body(items, hnp, pag, hn) ==
    [got |-> TRUE, items |-> items, hnp |-> hnp, pag |-> pag, hn |-> hn,
     none |-> FALSE]

JsonResps ==
    {FailedResp, Body(0, "absent", "no_pagination", "absent"),
     Body(0, "true", "no_pagination", "absent")}
    \cup {Body(1, a, b, c) : a \in FieldVals, b \in PaginationVals, c \in FieldVals}

\* an HTML listing page has product links or none, and no continuation member
HtmlResps ==
    {FailedResp, Body(0, "absent", "no_pagination", "absent"),
     Body(1, "absent", "no_pagination", "absent")}

RespsOf(script) == IF script = "html" THEN HtmlResps ELSE JsonResps

\* d.get(key): None for a missing key
PyGet(v) == IF v = "absent" THEN "null" ELSE v

\* a or b
PyOr(a, b) == IF a = "true" THEN a ELSE b

\* json_data.get("pagination", {}).get("hasNext") raises when the member
\* "pagination" is null; it is evaluated only when hasNextPage is not true
PaginationRaises(r) == PyGet(r.hnp) # "true" /\ r.pag = "pagination_null"

\* has_next of fetch_all_products
HasNextNew2(r) ==
    PyOr(PyOr(PyGet(r.hnp),
              IF r.pag = "no_pagination" THEN "null" ELSE PyGet(r.pag)),
         IF r.hn = "absent" THEN "false" ELSE r.hn) = "true"

\* data.get("hasNextPage") of run_scrape
HasNextNew3(r) == PyGet(r.hnp) = "true"

\* fetch_product_links goes on after every page that has links
HasNext(script, r) ==
    CASE script = "new2" -> HasNextNew2(r)
      [] script = "new3" -> HasNextNew3(r)
      [] OTHER -> TRUE

\* skips a page
NextPageSkip(page) == page + 2

\* page += 1
NextPage(page) == page + 1

\* a page request in the trace of a run
PageEvent(c, p) == [cat |-> c, page |-> p]

\* time.sleep(..) in the trace of a run
SleepEvent == [cat |-> 0, page |-> 0]

\* the delay made within get_soup / get_json after its last failed attempt;
\* fetch_products_from_api makes one attempt and no delay
FailureTrace(script) == IF script = "new3" THEN <<>> ELSE <<SleepEvent>>

\* the head of the loop over the categories: the next category is entered.
\* run_scrape reads cat["id"] outside any per-category handler, so an entry
\* without an id ends the run in the handler of line 116, before the save.
StartCategory ==
    /\ crawl.script \in PageScripts
    /\ crawl.phase = "cats"
    /\ crawl.cat < Len(crawl.cats)
    /\ IF crawl.script = "new3" /\ crawl.cats[crawl.cat + 1] = "no_id"
       THEN crawl' = [crawl EXCEPT !.phase = "fatal"]
       ELSE crawl' = [crawl EXCEPT !.phase = "pages", !.cat = @ + 1,
                                   !.page = 1, !.resp = NoResp]
    /\ UNCHANGED storeVars
    /\ UNCHANGED extractVars

\* one pass of the page loop: the fetch (with its retries), the parsing of
\* the products, the continuation test and the delay before the next page
FetchPage ==
    /\ crawl.script \in PageScripts
    /\ crawl.phase = "pages"
    /\ \E r \in RespsOf(crawl.script) :
          LET c == crawl.cat
              p == crawl.page
              asked == Append(crawl.trace, PageEvent(c, p))
          IN  IF ~r.got
              THEN crawl' = [crawl EXCEPT !.trace = asked \o FailureTrace(crawl.script),
                                          !.resp = r, !.errors = @ + 1,
                                          !.phase = "cats"]
              ELSE IF r.items = 0
              THEN crawl' = [crawl EXCEPT !.trace = asked, !.resp = r,
                                          !.phase = "cats"]
              ELSE IF crawl.script = "new2" /\ PaginationRaises(r)
              THEN crawl' = [crawl EXCEPT !.trace = asked, !.resp = r,
                                          !.kept = Append(@, PageEvent(c, p)),
                                          !.phase = "fatal"]
              ELSE IF ~HasNext(crawl.script, r)
              THEN crawl' = [crawl EXCEPT !.trace = asked, !.resp = r,
                                          !.kept = Append(@, PageEvent(c, p)),
                                          !.phase = "cats"]
              ELSE /\ p < MaxPages
                   /\ crawl' = [crawl EXCEPT !.trace = Append(asked, SleepEvent),
                                             !.resp = r,
                                             !.kept = Append(@, PageEvent(c, p)),
                                             !.page = NextPage(p)]
    /\ UNCHANGED storeVars
    /\ UNCHANGED extractVars

\* after the last category: save_to_csv / write_to_csv of what was gathered
SaveCsv ==
    /\ crawl.script \in PageScripts
    /\ crawl.phase = "cats"
    /\ crawl.cat = Len(crawl.cats)
    /\ crawl' = [crawl EXCEPT !.saved = crawl.kept, !.phase = "done"]
    /\ UNCHANGED storeVars
    /\ UNCHANGED extractVars

\* the operator asks the running script to stop.  No script reads a stop
\* flag, so the request changes nothing but the fact that it was made.
RequestStop ==
    /\ crawl.script \in PageScripts
    /\ crawl.phase \in {"cats", "pages"}
    /\ ~crawl.stop
    /\ crawl' = [crawl EXCEPT !.stop = TRUE]
    /\ UNCHANGED storeVars
    /\ UNCHANGED extractVars

\* ------------------------------------ the Spar import as a whole run
\* a product card of a catalogue page: its name (Null without a title
\* element) and its price text
Cards == {[name |-> n, text |-> t] : n \in Names \cup {Null}, t \in PriceTexts}

CardLists == UNION {[1..k -> Cards] : k \in 1..MaxItems}

\* fetch_and_store_products, the head of the page loop: the request for the
\* page, then the loop is left on a status other than 200 or on a page
\* without cards.  Nothing waits between the commit of one page and the
\* request for the next.
ImportFetch ==
    /\ crawl.script = "spar_import"
    /\ crawl.phase = "fetch"
    /\ crawl.page <= MaxPages
    /\ \/ crawl' = [crawl EXCEPT !.trace = Append(@, PageEvent(0, crawl.page)),
                                 !.phase = "done"]
       \/ \E cs \in CardLists :
             crawl' = [crawl EXCEPT !.trace = Append(@, PageEvent(0, crawl.page)),
                                    !.phase = "cards", !.cards = cs]
    /\ UNCHANGED storeVars
    /\ UNCHANGED extractVars

\* one card of the page.  A card without a name is skipped.  The commit that
\* stores a new product (line 80) may fail: the loop over the cards has no
\* handler, so the exception ends fetch_and_store_products, and the Price
\* rows the session holds for the page are never committed.
ImportCard ==
    /\ crawl.script = "spar_import"
    /\ crawl.phase = "cards"
    /\ crawl.cards # <<>>
    /\ LET card == Head(crawl.cards)
           s == "Spar"
           p == FloatOf(card.text)
           skip == [op |-> "item_spar", obs |-> ScrapedObs(card.name),
                    store |-> s, rule |-> 0, pid |-> 0, price |-> Null]
       IN  /\ prev' = last
           /\ UNCHANGED <<pc, req>>
           /\ \/ /\ card.name = Null
                 /\ last' = skip
                 /\ crawl' = [crawl EXCEPT !.cards = Tail(@)]
                 /\ UNCHANGED <<products, prices, pending, now>>
              \/ /\ card.name # Null
                 /\ ByNameStore(products, card.name, s) = {}
                 /\ last' = skip
                 /\ pending' = <<>>
                 /\ crawl' = [crawl EXCEPT !.phase = "aborted", !.why = "card"]
                 /\ UNCHANGED <<products, prices, now>>
              \/ /\ card.name # Null
                 /\ now < MaxTime
                 /\ now' = now + 1
                 /\ crawl' = [crawl EXCEPT !.cards = Tail(@)]
                 /\ \/ /\ ByNameStore(products, card.name, s) = {}
                       /\ Len(products) < MaxProducts
                       /\ products' = Append(products, ScrapedProduct(card.name, s))
                       /\ prices' = prices \o pending
                       /\ pending' = AddPrice(<<>>, Len(products) + 1, p, now')
                       /\ last' = [skip EXCEPT !.rule = 3,
                                               !.pid = Len(products) + 1,
                                               !.price = p]
                    \/ \E i \in ByNameStore(products, card.name, s) :
                          /\ UNCHANGED <<products, prices>>
                          /\ pending' = AddPrice(pending, i, p, now')
                          /\ last' = [skip EXCEPT !.rule = 2, !.pid = i,
                                                  !.price = p]
    /\ UNCHANGED extractVars

\* db.commit() after the last card of the page, then page += 1
ImportPageCommit ==
    /\ crawl.script = "spar_import"
    /\ crawl.phase = "cards"
    /\ crawl.cards = <<>>
    /\ prices' = prices \o pending
    /\ pending' = <<>>
    /\ prev' = last
    /\ last' = [NoOp EXCEPT !.op = "commit_spar", !.store = "Spar"]
    /\ crawl' = [crawl EXCEPT !.phase = "fetch", !.page = NextPage(@)]
    /\ UNCHANGED <<products, now, pc, req>>
    /\ UNCHANGED extractVars

\* -------------------------------------- spar_scraper.py: run, auto_scroll
\* auto_scroll(page, max_steps=30, pause_ms=600)
DefaultMaxSteps == 30

\* the step caps auto_scroll is called with: the default, and small ones
ScrollCaps == {1, 2, DefaultMaxSteps}

\* document.body.scrollHeight after a scroll: lower, the same, or higher
NewHeights(h) == {n \in {h - 1, h, h + 1} : n >= 0}

\* run() or auto_scroll is left by an exception or by KeyboardInterrupt:
\* nothing on the way out calls sink.close()
Leave(how) == crawl' = [crawl EXCEPT !.phase = "left", !.how = how]

\* scrolls once more when the cap is reached
MayScrollInclusive(steps, max_steps) == steps <= max_steps

\* while steps < max_steps
MayScroll(steps, max_steps) == steps < max_steps

\* last_h = page.evaluate("document.body.scrollHeight"); steps = 0
ScrollBegin ==
    /\ crawl.phase = "scroll_begin"
    /\ \/ \E h \in {1, 2} :
             crawl' = [crawl EXCEPT !.phase = "scroll", !.last_h = h,
                                    !.steps = 0, !.scrolls = 0, !.hs = <<h>>]
       \/ Leave("raised")
    /\ UNCHANGED storeVars
    /\ UNCHANGED extractVars

\* one turn of the loop: wheel, wait, read the height, compare
ScrollStep ==
    /\ crawl.phase = "scroll"
    /\ MayScroll(crawl.steps, crawl.max_steps)
    /\ \/ \E new_h \in NewHeights(crawl.last_h) :
             IF new_h <= crawl.last_h
             THEN crawl' = [crawl EXCEPT !.phase = "dom",
                                         !.scrolls = crawl.scrolls + 1,
                                         !.hs = Append(crawl.hs, new_h)]
             ELSE crawl' = [crawl EXCEPT !.last_h = new_h,
                                         !.steps = crawl.steps + 1,
                                         !.scrolls = crawl.scrolls + 1,
                                         !.hs = Append(crawl.hs, new_h)]
       \/ Leave("raised")
    /\ UNCHANGED storeVars
    /\ UNCHANGED extractVars

\* the loop condition fails: the cap is reached
ScrollCap ==
    /\ crawl.phase = "scroll"
    /\ ~MayScroll(crawl.steps, crawl.max_steps)
    /\ crawl' = [crawl EXCEPT !.phase = "dom"]
    /\ UNCHANGED storeVars
    /\ UNCHANGED extractVars

\* run(): launch, new_context, new_page, page.on, page.goto(home)
RunLaunch ==
    /\ crawl.phase = "launch"
    /\ \/ crawl' = [crawl EXCEPT !.phase = "input"]
       \/ Leave("raised")
    /\ UNCHANGED storeVars
    /\ UNCHANGED extractVars

\* try: input(...) except KeyboardInterrupt: pass
RunInput ==
    /\ crawl.phase = "input"
    /\ crawl' = [crawl EXCEPT !.phase = "discover"]
    /\ UNCHANGED storeVars
    /\ UNCHANGED extractVars

\* cat_links = get_candidate_category_links(page), and once more after the
\* click on 'Catalog' when there were none; only the click is guarded
RunDiscover ==
    /\ crawl.phase = "discover"
    /\ \/ \E n \in 0..MaxCats :
             crawl' = [crawl EXCEPT !.links = n,
                                    !.i = IF n = 0 THEN 0 ELSE 1,
                                    !.phase = IF n = 0 THEN "scroll_begin"
                                              ELSE "goto"]
       \/ Leave("raised")
    /\ UNCHANGED storeVars
    /\ UNCHANGED extractVars

\* the link after this one, or the end of the loop
AfterLink(c) ==
    IF c.i < c.links THEN [c EXCEPT !.i = c.i + 1, !.phase = "goto"]
    ELSE [c EXCEPT !.phase = "closing"]

\* try: page.goto(link, ...) except Exception: continue
RunGoto ==
    /\ crawl.phase = "goto"
    /\ \/ crawl' = [crawl EXCEPT !.phase = "scroll_begin"]
       \/ crawl' = AfterLink(crawl)
    /\ UNCHANGED storeVars
    /\ UNCHANGED extractVars

\* dom_scrape_products(page, sink) on the page shown
RunDom ==
    /\ crawl.phase = "dom"
    /\ crawl.script = "spar_scraper"
    /\ \/ \E items \in DomLists :
             /\ sink' = AddAll(sink, [k \in 1..Len(items) |->
                                         DomCall(NullNode, NullNode, items[k])])
             /\ crawl' = AfterLink(crawl)
       \/ Leave("raised") /\ sink' = sink
    /\ UNCHANGED storeVars
    /\ UNCHANGED <<input, order, outputs>>

\* ctx.close(); browser.close(); sink.close(): the last statements of the
\* with block
RunClose ==
    /\ crawl.phase = "closing"
    /\ \/ crawl' = [crawl EXCEPT !.phase = "left", !.how = "returned",
                                 !.closed = TRUE]
       \/ Leave("raised")
    /\ UNCHANGED storeVars
    /\ UNCHANGED extractVars

\* Ctrl-C while the browser is driven: KeyboardInterrupt is caught only
\* around input()
RunCancel ==
    /\ crawl.script = "spar_scraper"
    /\ crawl.phase \notin {"left", "input"}
    /\ Leave("cancelled")
    /\ UNCHANGED storeVars
    /\ UNCHANGED extractVars

\* ---- deep trees, for calls of extract_items_merged with a depth bound
\* a name that tells the depth of the map carrying it
Unary(n) == [k \in 1..n |-> "a"]

\* a chain of nested product maps: the map at depth k carries a name and a
\* price, and its child is the next map ("maps") or a one-element list
\* holding the next map ("lists")
RECURSIVE Chain(_, _, _)
Chain(shape, k, d) ==
    Map(<<Entry("name", Str(Unary(k + 1))), Entry("price", Str(<<"7">>))>>
        \o (IF shape = "maps" /\ k + 1 <= d
            THEN <<Entry("data", Chain(shape, k + 1, d))>>
            ELSE IF shape = "lists" /\ k + 2 <= d
            THEN <<Entry("items", List(<<Chain(shape, k + 2, d)>>))>>
            ELSE <<>>))

DeepTrees == {Chain(sh, 0, d) : sh \in {"maps", "lists"}, d \in 0..MaxNesting}

\* the bounds a call passes: small ones and the default
DepthBounds == {0, 1, 2, DefaultMaxDepth}

\* extract_items_merged(node, {}, sink, 0, max_depth) on a deep tree
ExtractDeep ==
    /\ crawl.script = "extract"
    /\ outputs = <<>>
    /\ outputs' = <<[ord |-> order,
                     rows |-> Emits(input, EmptyCtx, 0, crawl.max_depth, order)]>>
    /\ UNCHANGED <<input, order, sink>>
    /\ UNCHANGED storeVars
    /\ UNCHANGED crawl

\* -------------------- the database scrapers as whole runs, and the catalog API
\* main() of 2nabiji_scraper_exact.py and of Europroduct scraper.py, and
\* fetch_and_store_products() of spar_product_import.py, run one after the
\* other on one database; crawl holds the Store and Category tables
MainScripts == {"2nabiji", "Europroduct"}

\* the store a script works for
StoreOf(script) == IF script = "spar_import" THEN "Spar" ELSE script

\* category names the sites and the API use
GroupNames == {"Milk & Dairy", "Drinks"}

\* categorize_product(name): the first category with a keyword in the name
Categorize(name) ==
    IF name \in {"Milk", "Milk 1L"} THEN "Milk & Dairy" ELSE "Other"

\* the cards of a category (or of a page of the Spar catalogue)
MainCards ==
    {[name |-> "Milk", text |-> "5,99"], [name |-> "Milk", text |-> "n/a"],
     [name |-> Null, text |-> "5,99"]}

MainCardLists == UNION {[1..n -> MainCards] : n \in 1..MaxItems}

\* what the site serves, the same at every run: one category, or two
Catalogs ==
    {<<[name |-> a, items |-> l]>> : a \in GroupNames, l \in MainCardLists}
    \cup {<<[name |-> a, items |-> l],
            [name |-> b, items |-> <<[name |-> "Milk", text |-> "5,99"]>>]>> :
            a \in GroupNames, b \in GroupNames, l \in MainCardLists}

NoLookup == [hit |-> FALSE, store |-> Null, owner |-> Null]

\* db.add(Category(...)); db.commit(); db.refresh(category)
AddCategory(c, name, store) ==
    [c EXCEPT !.cats = @ \cup {[id |-> c.nextId, name |-> name, store |-> store]},
              !.nextId = @ + 1]

\* the run is over: the function returned or was left by an exception
EndRun(c) ==
    [c EXCEPT !.phase = "idle",
              !.hist = Append(@, [script |-> c.script, clean |-> c.clean,
                                  ran |-> c.ran])]

\* db = SessionLocal() at the start of a run
Opened(c, script) ==
    [c EXCEPT !.script = script, !.session = "open", !.g = 0, !.k = 0,
              !.clean = TRUE, !.ran = FALSE, !.lookup = NoLookup,
              !.base = [products |-> products,
                        nprices |-> Len(prices) + Len(pending),
                        cats |-> c.cats, stores |-> c.stores]]

\* main(): db = SessionLocal(), then the store is looked up and created when
\* missing; an exception here is the fatal one, and finally closes
MainOpen ==
    /\ crawl.phase = "idle"
    /\ Len(crawl.hist) < MaxRuns
    /\ \E script \in MainScripts :
          \/ crawl' = [Opened(crawl, script) EXCEPT
                            !.stores = @ \cup {StoreOf(script)},
                            !.phase = "cats"]
          \/ crawl' = [Opened(crawl, script) EXCEPT
                            !.clean = FALSE, !.phase = "closing"]
    /\ UNCHANGED storeVars
    /\ UNCHANGED extractVars

\* categories = fetch_categories() / get_categories(): the list, or a
\* failure (an empty list in 2nabiji, the fatal handler in Europroduct: the
\* loop is not entered either way)
MainCategories ==
    /\ crawl.phase = "cats"
    /\ \/ crawl' = [crawl EXCEPT !.g = 1, !.phase = "cat"]
       \/ crawl' = [crawl EXCEPT !.clean = FALSE, !.phase = "closing"]
    /\ UNCHANGED storeVars
    /\ UNCHANGED extractVars

\* the category after this one, or the end of the loop
NextGroup(c) ==
    IF c.g < Len(c.catalog) THEN [c EXCEPT !.g = c.g + 1, !.k = 0, !.phase = "cat"]
    ELSE [c EXCEPT !.phase = "closing", !.ran = c.clean]

\* the head of the category loop: the category by name and store, created
\* when missing, then its products; a failed product request ends the
\* category (an empty list in 2nabiji, the category handler in Europroduct)
MainCategory ==
    /\ crawl.phase = "cat"
    /\ LET s == StoreOf(crawl.script)
           name == crawl.catalog[crawl.g].name
           found == {c \in crawl.cats : c.name = name /\ c.store = s}
           c1 == IF found = {} THEN AddCategory(crawl, name, s)
                 ELSE [crawl EXCEPT !.lookup = [hit |-> TRUE, store |-> s,
                                                owner |-> s]]
       IN  \/ crawl' = [c1 EXCEPT !.k = 1, !.phase = "item"]
           \/ crawl' = NextGroup([c1 EXCEPT !.clean = FALSE])
    /\ UNCHANGED storeVars
    /\ UNCHANGED extractVars

\* the card after this one, or the next category
NextItem(c) ==
    IF c.k < Len(c.catalog[c.g].items) THEN [c EXCEPT !.k = c.k + 1]
    ELSE NextGroup(c)

\* one product of the inner loop: a card without a title raises and is
\* skipped, an unparseable price is skipped, else the product is matched by
\* name and store, created when missing, and one Price row is committed
MainItem ==
    /\ crawl.phase = "item"
    /\ LET s == StoreOf(crawl.script)
           card == crawl.catalog[crawl.g].items[crawl.k]
           p == DecimalOf(card.text)
       IN  \/ /\ card.name = Null \/ p = Null
              /\ crawl' = NextItem(crawl)
              /\ UNCHANGED <<products, prices, now>>
           \/ /\ card.name # Null /\ p # Null
              /\ crawl' = NextItem(crawl)
              /\ now' = now + 1
              /\ \/ /\ ByNameStore(products, card.name, s) = {}
                    /\ products' = Append(products, ScrapedProduct(card.name, s))
                    /\ prices' = AddPrice(prices, Len(products) + 1, p, now')
                 \/ \E i \in ByNameStore(products, card.name, s) :
                       /\ products' = products
                       /\ prices' = AddPrice(prices, i, p, now')
           \/ /\ card.name # Null /\ p # Null
              /\ crawl' = NextItem([crawl EXCEPT !.clean = FALSE])
              /\ UNCHANGED <<products, prices, now>>
    /\ UNCHANGED <<pending, pc, req, prev, last>>
    /\ UNCHANGED extractVars

\* finally: db.close()
MainClose ==
    /\ crawl.phase = "closing"
    /\ crawl' = EndRun([crawl EXCEPT !.session = "closed"])
    /\ UNCHANGED storeVars
    /\ UNCHANGED extractVars

\* fetch_and_store_products(): db = SessionLocal(), the Spar store looked
\* up; return when it is missing
ImportOpen ==
    /\ crawl.phase = "idle"
    /\ Len(crawl.hist) < MaxRuns
    /\ IF "Spar" \in crawl.stores
       THEN crawl' = [Opened(crawl, "spar_import") EXCEPT !.g = 1, !.phase = "page"]
       ELSE crawl' = EndRun(Opened(crawl, "spar_import"))
    /\ UNCHANGED storeVars
    /\ UNCHANGED extractVars

\* the head of the page loop: requests.get; break on a status other than
\* 200 or a page without cards (the catalogue is over); an exception of the
\* request leaves the function
ImportPage ==
    /\ crawl.phase = "page"
    /\ \/ /\ crawl.g <= Len(crawl.catalog)
          /\ crawl' = [crawl EXCEPT !.k = 1, !.phase = "card"]
       \/ /\ crawl.g > Len(crawl.catalog)
          /\ crawl' = EndRun([crawl EXCEPT !.ran = crawl.clean])
       \/ crawl' = EndRun([crawl EXCEPT !.clean = FALSE])
    /\ UNCHANGED storeVars
    /\ UNCHANGED extractVars

\* one card of a page: skipped without a name; the category is looked up by
\* name alone and created, with no store, when missing; the product is
\* matched by name and store; the Price row waits for the next commit
ImportItem ==
    /\ crawl.phase = "card"
    /\ LET card == crawl.catalog[crawl.g].items[crawl.k]
           p == FloatOf(card.text)
           cname == Categorize(card.name)
           found == {c \in crawl.cats : c.name = cname}
           step(c) == IF c.k < Len(c.catalog[c.g].items)
                      THEN [c EXCEPT !.k = c.k + 1]
                      ELSE [c EXCEPT !.phase = "commit"]
       IN  \/ /\ card.name = Null
              /\ crawl' = step(crawl)
              /\ UNCHANGED <<products, prices, pending, now>>
           \/ /\ card.name # Null
              /\ now' = now + 1
              /\ \/ /\ found = {}
                    /\ crawl' = step(AddCategory(crawl, cname, Null))
                 \/ \E c \in found :
                       crawl' = step([crawl EXCEPT
                                         !.lookup = [hit |-> TRUE, store |-> "Spar",
                                                     owner |-> c.store]])
              /\ LET held == IF found = {} THEN <<>> ELSE pending
                     done == IF found = {} THEN prices \o pending ELSE prices
                 IN  \/ /\ ByNameStore(products, card.name, "Spar") = {}
                        /\ products' = Append(products,
                                              ScrapedProduct(card.name, "Spar"))
                        /\ prices' = done \o held
                        /\ pending' = AddPrice(<<>>, Len(products) + 1, p, now')
                     \/ \E i \in ByNameStore(products, card.name, "Spar") :
                           /\ products' = products
                           /\ prices' = done
                           /\ pending' = AddPrice(held, i, p, now')
    /\ UNCHANGED <<pc, req, prev, last>>
    /\ UNCHANGED extractVars

\* db.commit(); page += 1
ImportCommit ==
    /\ crawl.phase = "commit"
    /\ prices' = prices \o pending
    /\ pending' = <<>>
    /\ crawl' = [crawl EXCEPT !.g = crawl.g + 1, !.k = 0, !.phase = "page"]
    /\ UNCHANGED <<products, now, pc, req, prev, last>>
    /\ UNCHANGED extractVars

\* a (name, store) pair is not stored twice: the commit that would is refused
NameStoreFree(cats, name, store) ==
    ~\E c \in cats : c.name = name /\ c.store = store

\* POST /categories/v2: the row is added as sent (the body names no store);
\* get_db closes the session of the request in its finally
CreateCategory ==
    /\ crawl.phase = "idle"
    /\ crawl.nextId <= MaxCalls
    /\ \E name \in GroupNames :
          IF NameStoreFree(crawl.cats, name, Null)
          THEN crawl' = [AddCategory(crawl, name, Null) EXCEPT !.dep = "closed"]
          ELSE crawl' = [crawl EXCEPT !.dep = "closed"]
    /\ UNCHANGED storeVars
    /\ UNCHANGED extractVars

\* ---- the other category and subcategory endpoints of catalog.py
\* Subcategory.category_id is a required reference to a Category row: a
\* commit that would store a null or a dangling one is refused
FkAcceptsNull(cats, v) ==
    v.kind = "null" \/ (v.kind = "int" /\ \E c \in cats : c.id = v.n)

FkAccepts(cats, v) == v.kind = "int" /\ \E c \in cats : c.id = v.n

\* the category_id of a request body: an id in use or not, null, or left
\* out; a stored null reads as id 0, which no row has
SentIds == {[kind |-> "int", n |-> n] : n \in 1..(MaxCalls + 1)}

SentNull == [kind |-> "null", n |-> 0]

SentUnset == [kind |-> "unset", n |-> 0]

\* PUT /categories/v2/{id}: every field of the body is written; 404 for an
\* unknown id
UpdateCategory ==
    /\ crawl.phase = "idle"
    /\ \E c \in crawl.cats, name \in GroupNames :
          /\ NameStoreFree(crawl.cats \ {c}, name, c.store)
          /\ crawl' = [crawl EXCEPT
                          !.cats = (@ \ {c}) \cup {[c EXCEPT !.name = name]},
                          !.dep = "closed"]
    /\ UNCHANGED storeVars
    /\ UNCHANGED extractVars

\* DELETE /categories/v2/{id}: db.delete(db_category); db.commit().  With
\* subcategories under it the delete takes them along or is refused
DeleteCategory ==
    /\ crawl.phase = "idle"
    /\ \E c \in crawl.cats :
          LET under == {s \in crawl.subs : s.category_id = c.id}
          IN  \/ crawl' = [crawl EXCEPT !.cats = @ \ {c}, !.subs = @ \ under,
                                        !.dep = "closed"]
              \/ /\ under # {}
                 /\ crawl' = [crawl EXCEPT !.dep = "closed"]
    /\ UNCHANGED storeVars
    /\ UNCHANGED extractVars

\* POST /subcategories: Subcategory(**subcategory.dict()), category_id as
\* sent; nothing in the endpoint looks the category up
CreateSubcategory ==
    /\ crawl.phase = "idle"
    /\ crawl.nextSub <= MaxItems
    /\ \E v \in SentIds :
          IF FkAccepts(crawl.cats, v)
          THEN crawl' = [crawl EXCEPT
                            !.subs = @ \cup {[id |-> crawl.nextSub,
                                              category_id |-> v.n]},
                            !.nextSub = @ + 1, !.dep = "closed"]
          ELSE crawl' = [crawl EXCEPT !.dep = "closed"]
    /\ UNCHANGED storeVars
    /\ UNCHANGED extractVars

\* PUT /subcategories/{id}: the fields the body sets are written
\* (exclude_unset), a category_id sent as null included
UpdateSubcategory ==
    /\ crawl.phase = "idle"
    /\ \E s \in crawl.subs, v \in SentIds \cup {SentNull, SentUnset} :
          IF v.kind # "unset" /\ FkAccepts(crawl.cats, v)
          THEN crawl' = [crawl EXCEPT
                            !.subs = (@ \ {s}) \cup {[s EXCEPT !.category_id = v.n]},
                            !.dep = "closed"]
          ELSE crawl' = [crawl EXCEPT !.dep = "closed"]
    /\ UNCHANGED storeVars
    /\ UNCHANGED extractVars

\* DELETE /subcategories/{id}
DeleteSubcategory ==
    /\ crawl.phase = "idle"
    /\ \E s \in crawl.subs :
          crawl' = [crawl EXCEPT !.subs = @ \ {s}, !.dep = "closed"]
    /\ UNCHANGED storeVars
    /\ UNCHANGED extractVars

\* no fetch script is running
NoCrawl == [script |-> "none"]

InitStore ==
    /\ products = <<>>
    /\ prices = <<>>
    /\ pending = <<>>
    /\ now = 0
    /\ pc = [w \in Workers |-> "idle"]
    /\ req = [w \in Workers |-> NoReq]
    /\ prev = NoOp
    /\ last = NoOp

NoOrder == [slot \in {"cat", "sub", "name", "price", "image"} |-> <<>>]

NoSink == [seen |-> {}, rows |-> <<>>, count |-> 0]

Init ==
    /\ InitStore
    /\ input = NullNode
    /\ order = NoOrder
    /\ outputs = <<>>
    /\ sink = NoSink
    /\ crawl = NoCrawl

\* the resolver endpoint, one request at a time
Next == ResolveAny

Spec == Init /\ [][Next]_vars

\* the scrapers of two stores
NextIngest == Scrape2nabiji \/ ScrapeSpar \/ PageCommitSpar

SpecIngest == Init /\ [][NextIngest]_vars

\* the scrapers and resolver requests made for their stores, on one table
NextStore == NextIngest \/ ResolveFor

SpecStore == Init /\ [][NextStore]_vars

\* two resolver requests in flight at once
NextConc == BeginAny \/ Query2Any \/ CommitAny

SpecConc == Init /\ [][NextConc]_vars

\* as_price applied to one value
InitPrice ==
    /\ InitStore
    /\ input \in PriceInputs
    /\ order = NoOrder
    /\ outputs = <<>>
    /\ sink = NoSink
    /\ crawl = NoCrawl

NextPrice == ParsePrice

SpecPrice == InitPrice /\ [][NextPrice]_vars

\* the extractor applied to one decoded body, by one or more processes
InitExtract ==
    /\ InitStore
    /\ input \in Trees
    /\ order \in Orders
    /\ outputs = <<>>
    /\ sink = NoSink
    /\ crawl = NoCrawl

NextExtract == Extract \/ Restart

SpecExtract == InitExtract /\ [][NextExtract]_vars

\* one run of the spar scraper: response callbacks and page scrapes, one sink
InitSink ==
    /\ InitStore
    /\ input = NullNode
    /\ order \in Orders
    /\ outputs = <<>>
    /\ sink = NoSink
    /\ crawl = NoCrawl

NextSink == OnResponse \/ DomScrape

SpecSink == InitSink /\ [][NextSink]_vars

\* the two Spar API parsers applied to one product object
InitSale ==
    /\ InitStore
    /\ input \in SaleProducts
    /\ order = NoOrder
    /\ outputs = <<>>
    /\ sink = NoSink
    /\ crawl = NoCrawl

NextSale == ParseProduct \/ ParseAndCollect

SpecSale == InitSale /\ [][NextSale]_vars

\* one body holding a category and its list of items, extracted into the sink
InitItems ==
    /\ InitStore
    /\ input \in {CategoryTree(items) : items \in ItemLists}
    /\ order \in Orders
    /\ outputs = <<>>
    /\ sink = NoSink
    /\ crawl = NoCrawl

NextItems == ExtractToSink

SpecItems == InitItems /\ [][NextItems]_vars

\* one call of get_soup or get_json; plan is what each request would meet
InitFetch ==
    /\ InitStore
    /\ input = NullNode
    /\ order = NoOrder
    /\ outputs = <<>>
    /\ sink = NoSink
    /\ \E fn \in Fetchers, plan \in [1..(MAX_RETRIES + 1) -> Outcomes] :
          crawl = [script |-> fn, plan |-> plan, attempt |-> 0,
                   trace |-> <<>>, result |-> "running"]

NextFetch == FetchAttempt \/ FetchGiveUp

SpecFetch == InitFetch /\ [][NextFetch]_vars

\* one run of a listing script over the categories the site gives it
CategoryLists(script) ==
    CASE script = "new2" -> {<<"ok">>}
      [] script = "new3" -> UNION {[1..k -> {"ok", "no_id"}] : k \in 1..MaxCats}
      [] OTHER -> UNION {[1..k -> {"ok"}] : k \in 1..MaxCats}

InitPages ==
    /\ InitStore
    /\ input = NullNode
    /\ order = NoOrder
    /\ outputs = <<>>
    /\ sink = NoSink
    /\ \E script \in PageScripts :
          \E cats \in CategoryLists(script) :
             crawl = [script |-> script, cats |-> cats, cat |-> 0, page |-> 0,
                      phase |-> "cats", trace |-> <<>>, resp |-> NoResp,
                      kept |-> <<>>, saved |-> <<>>, errors |-> 0,
                      stop |-> FALSE]

NextPages == StartCategory \/ FetchPage \/ SaveCsv \/ RequestStop

SpecPages == InitPages /\ [][NextPages]_vars

\* one run of spar_product_import.fetch_and_store_products
InitImport ==
    /\ InitStore
    /\ input = NullNode
    /\ order = NoOrder
    /\ outputs = <<>>
    /\ sink = NoSink
    /\ crawl = [script |-> "spar_import", page |-> 1, phase |-> "fetch",
                cards |-> <<>>, trace |-> <<>>, why |-> "none"]

NextImport == ImportFetch \/ ImportCard \/ ImportPageCommit

SpecImport == InitImport /\ [][NextImport]_vars

\* run() of spar_scraper.py, from sink = RowSink(OUTPUT_CSV) on
InitRun ==
    /\ InitStore
    /\ input = NullNode
    /\ order = NoOrder
    /\ outputs = <<>>
    /\ sink = NoSink
    /\ crawl = [script |-> "spar_scraper", phase |-> "launch", links |-> 0,
                i |-> 0, closed |-> FALSE, how |-> "running",
                max_steps |-> DefaultMaxSteps, last_h |-> 0, steps |-> 0,
                scrolls |-> 0, hs |-> <<>>]

NextRun ==
    \/ RunLaunch \/ RunInput \/ RunDiscover \/ RunGoto
    \/ ScrollBegin \/ ScrollStep \/ ScrollCap
    \/ RunDom \/ RunClose \/ RunCancel

SpecRun == InitRun /\ [][NextRun]_vars

\* auto_scroll called on a page, with a cap
InitScroll ==
    /\ InitStore
    /\ input = NullNode
    /\ order = NoOrder
    /\ outputs = <<>>
    /\ sink = NoSink
    /\ \E m \in ScrollCaps :
          crawl = [script |-> "auto_scroll", phase |-> "scroll_begin",
                   links |-> 0, i |-> 0, closed |-> FALSE, how |-> "running",
                   max_steps |-> m, last_h |-> 0, steps |-> 0,
                   scrolls |-> 0, hs |-> <<>>]

NextScroll == ScrollBegin \/ ScrollStep \/ ScrollCap

SpecScroll == InitScroll /\ [][NextScroll]_vars

InitDeep ==
    /\ InitStore
    /\ input \in DeepTrees
    /\ order \in Orders
    /\ outputs = <<>>
    /\ sink = NoSink
    /\ \E m \in DepthBounds : crawl = [script |-> "extract", max_depth |-> m]

NextDeep == ExtractDeep

SpecDeep == InitDeep /\ [][NextDeep]_vars

\* an empty database, or one in which the Spar store has been entered
InitMain ==
    /\ InitStore
    /\ input = NullNode
    /\ order = NoOrder
    /\ outputs = <<>>
    /\ sink = NoSink
    /\ \E cat \in Catalogs, st \in {{}, {"Spar"}} :
          crawl = [script |-> "none", phase |-> "idle", session |-> "none",
                   dep |-> "none", catalog |-> cat,
                   g |-> 0, k |-> 0, stores |-> st, cats |-> {}, nextId |-> 1,
                   lookup |-> NoLookup, hist |-> <<>>, clean |-> TRUE,
                   ran |-> FALSE,
                   base |-> [products |-> <<>>, nprices |-> 0, cats |-> {},
                             stores |-> st]]

NextMain ==
    \/ MainOpen \/ MainCategories \/ MainCategory \/ MainItem \/ MainClose
    \/ ImportOpen \/ ImportPage \/ ImportItem \/ ImportCommit
    \/ CreateCategory

SpecMain == InitMain /\ [][NextMain]_vars

\* the catalog API on an empty taxonomy
InitCatalog ==
    /\ InitStore
    /\ input = NullNode
    /\ order = NoOrder
    /\ outputs = <<>>
    /\ sink = NoSink
    /\ crawl = [script |-> "api", phase |-> "idle", dep |-> "none",
                cats |-> {}, nextId |-> 1, subs |-> {}, nextSub |-> 1]

NextCatalog ==
    \/ CreateCategory \/ UpdateCategory \/ DeleteCategory
    \/ CreateSubcategory \/ UpdateSubcategory \/ DeleteSubcategory

SpecCatalog == InitCatalog /\ [][NextCatalog]_vars

\* ================================================================ claims

\* C1: replaying one observation into the resolver leaves exactly one
\* Product row matching it, and a repeated call of the same observation adds
\* no row and changes no field.
C1_ReplayIdempotent ==
    [][last'.op = "resolve" =>
         /\ Cardinality(Candidates(products', last'.obs)) = 1
         /\ (last.op = "resolve" /\ last.obs = last'.obs
                => products' = products)]_vars

\* C2: no two Product rows of one store carry the same external id, and no
\* two carry the same (name, brand, barcode) identity key.
C2_IdentityUnique ==
    \A i, j \in 1..Len(products) :
        (i < j /\ products[i].store_id = products[j].store_id) =>
            /\ ~(/\ products[i].api_product_id # Null
                 /\ products[i].api_product_id = products[j].api_product_id)
            /\ ~(/\ products[i].name = products[j].name
                 /\ products[i].brand = products[j].brand
                 /\ products[i].bar_code = products[j].bar_code)

\* C3: two overlapping resolver requests of one store with the same
\* observation, whose identity was not stored when either began, end with
\* exactly one Product row for it.
C3_ConcurrentOneRow ==
    (/\ \A w \in Workers : pc[w] = "idle" /\ req[w].fresh /\ req[w].overlap
     /\ req[1].obs = req[2].obs
     /\ req[1].store = req[2].store)
    => Cardinality({i \in 1..Len(products) :
                       products[i] = NewProduct(req[1].obs)}) = 1

\* C4: an observation with only a name, followed by one with the same name
\* plus a barcode, matches the row of the first and leaves one row of that
\* name, now carrying the barcode.
C4_EnrichmentNoDuplicate ==
    (/\ prev.op = "resolve" /\ last.op = "resolve"
     /\ prev.obs.brand = Unset /\ prev.obs.api_product_id = Unset
     /\ prev.obs.bar_code = Unset
     /\ last.obs.bar_code \in BarCodes
     /\ last.obs = [prev.obs EXCEPT !.bar_code = last.obs.bar_code])
    => /\ last.rule # 3
       /\ \A i \in 1..Len(products) :
             products[i].name = last.obs.name
                => products[i].bar_code = last.obs.bar_code

\* C5: an observation with external id x, then one with the same id, another
\* name and a barcode, on a table that had no row of id x: exactly one row has
\* id x, with the second name and the barcode.
C5_Scenario ==
    /\ prev.op = "resolve" /\ last.op = "resolve"
    /\ prev.obs.api_product_id \in ApiIds
    /\ prev.rule # 1
    /\ last.obs.api_product_id = prev.obs.api_product_id
    /\ last.obs.name # prev.obs.name
    /\ last.obs.bar_code \in BarCodes

C5_OneRowLastValues ==
    C5_Scenario =>
        LET X == {i \in 1..Len(products) :
                     products[i].api_product_id = last.obs.api_product_id}
        IN  /\ Cardinality(X) = 1
            /\ \A i \in X : /\ products[i].name = last.obs.name
                            /\ products[i].bar_code = last.obs.bar_code

C5_Witness ==
    /\ C5_Scenario
    /\ prev.obs.name = "Milk" /\ prev.obs.bar_code = Unset
    /\ last.obs.name = "Milk 1L" /\ last.obs.api_product_id = "7"
    /\ last.obs.bar_code = "123"
    /\ Len(products) = 1

\* C6: an observation that leaves out brand and barcode (and external id)
\* matches an existing row of the same name whatever brand and barcode the
\* row has.
C6_OmittedNotCompared ==
    [][(/\ last'.op = "resolve"
        /\ last'.obs.brand = Unset /\ last'.obs.bar_code = Unset
        /\ last'.obs.api_product_id = Unset
        /\ \E i \in 1..Len(products) : products[i].name = last'.obs.name)
       => /\ last'.rule = 2
          /\ products[last'.pid].name = last'.obs.name]_vars

\* C7: a resolver request made for store S never matches, and so never
\* overwrites, a Product row that belongs to another store.
C7_StoreScoped ==
    [][(/\ last'.op = "resolve" /\ last'.rule \in {1, 2}
        /\ products[last'.pid].store_id \in Stores)
       => products[last'.pid].store_id = last'.store]_vars

\* C8: the rules are tried in the order external id, key, create.  When a row
\* has the observation's external id that row is the one updated and every
\* other row, a key-matching one included, is unchanged; the key rule is used
\* only when no row has the id, and a row is created only when neither rule
\* matches.
C8_RuleOrder ==
    [][last'.op = "resolve" =>
         LET o == last'.obs
             A == {i \in 1..Len(products) :
                      /\ o.api_product_id \in ApiIds
                      /\ products[i].api_product_id = o.api_product_id}
             B == {i \in 1..Len(products) :
                      /\ products[i].name = o.name
                      /\ products[i].brand =
                            (IF o.brand = Unset THEN Null ELSE o.brand)
                      /\ products[i].bar_code =
                            (IF o.bar_code = Unset THEN Null ELSE o.bar_code)}
         IN  /\ A # {} =>
                  /\ last'.rule = 1 /\ last'.pid \in A
                  /\ Len(products') = Len(products)
                  /\ \A j \in 1..Len(products) :
                        j # last'.pid => products'[j] = products[j]
             /\ (A = {} /\ B # {}) => (last'.rule = 2 /\ last'.pid \in B)
             /\ (A = {} /\ B = {}) =>
                  (last'.rule = 3 /\ Len(products') = Len(products) + 1)]_vars

C8_Witness ==
    /\ last.op = "resolve" /\ last.rule = 1
    /\ \E j \in 1..Len(products) :
          /\ j # last.pid
          /\ products[j].name = last.obs.name
          /\ products[j].brand = Get(last.obs, "brand")
          /\ products[j].bar_code = Get(last.obs, "bar_code")
          /\ products[j].api_product_id # last.obs.api_product_id

\* C9: a request that matches a row overwrites every field it sets, keeps
\* every field it does not set, and modifies, creates or deletes no other row.
C9_MatchFrame ==
    [][(last'.op = "resolve" /\ last'.rule \in {1, 2}) =>
         LET o == last'.obs
             k == last'.pid
         IN  /\ Len(products') = Len(products)
             /\ \A j \in 1..Len(products) :
                   j # k => products'[j] = products[j]
             /\ \A f \in Fields :
                   products'[k][f] =
                       (IF o[f] # Unset THEN o[f] ELSE products[k][f])
             /\ products'[k].store_id = products[k].store_id]_vars

C9_Witness ==
    /\ last.op = "resolve" /\ last.rule = 1
    /\ prev.op = "resolve" /\ prev.pid = last.pid
    /\ prev.obs.brand = "Sante" /\ last.obs.brand = Unset
    /\ last.obs.bar_code = Null /\ prev.obs.bar_code = "123"
    /\ products[last.pid].brand = "Sante"
    /\ products[last.pid].bar_code = Null
    /\ Len(products) = 2

TreeFan == 5
TreeDepth == 3

PathSpace == UNION {[1..k -> 1..TreeFan] : k \in 0..TreeDepth}

RECURSIVE Reach(_, _)
Reach(node, p) ==
    IF p = <<>> THEN node
    ELSE IF node.kind \in {"map", "seq"} /\ p[1] <= Len(node.kids)
         THEN Reach(node.kids[p[1]].node, Tail(p))
         ELSE Absent

MapPaths(tree) == {p \in PathSpace : Reach(tree, p).kind = "map"}

SeqPaths(tree) == {p \in PathSpace : Reach(tree, p).kind = "seq"}

\* the value a slot has at a map: that of the nearest map, from the node
\* itself up to the root, that carries a non-empty alias of the slot
CtxAt(tree, p, ord) ==
    [sl \in Slots |->
        LET ks == {k \in 0..Len(p) :
                      FirstNonEmpty(Reach(tree, SubSeq(p, 1, k)), ord[sl]).kind # "null"}
        IN  IF ks = {} THEN NullNode
            ELSE FirstNonEmpty(
                    Reach(tree, SubSeq(p, 1, CHOOSE k \in ks : \A m \in ks : m <= k)),
                    ord[sl])]

\* C13: every record handed to the sink has a non-empty name after the
\* stripping the extractor applies, whatever the tree.
C13_NamedRows ==
    \A i \in DOMAIN outputs : \A j \in DOMAIN outputs[i].rows :
        outputs[i].rows[j].name # <<>>

\* what C14 requires of a map at position p in a run with alias order ord
C14_Due(tree, p, ord) ==
    LET c == CtxAt(tree, p, ord)
    IN  Truthy(c["name"]) /\ (AsPrice(c["price"]).ok \/ Truthy(c["image"]))

\* C14: a run emits one record for each visited map whose accumulated
\* context has a non-empty name and a parseable price or a non-empty image,
\* and none for any other map, for a sequence or for a scalar.
C14_EmitIff ==
    \A i \in DOMAIN outputs :
        LET due == {p \in MapPaths(input) : C14_Due(input, p, outputs[i].ord)}
            rows == outputs[i].rows
        IN  /\ Len(rows) = Cardinality(due)
            /\ \A p \in due :
                  \E j \in DOMAIN rows :
                      rows[j] = RowOf(CtxAt(input, p, outputs[i].ord))

\* a run over a tree with a list, a map that is due and a map that is not
C14_Witness ==
    /\ outputs # <<>>
    /\ SeqPaths(input) # {}
    /\ \E p, q \in MapPaths(input) :
          /\ C14_Due(input, p, outputs[1].ord)
          /\ ~C14_Due(input, q, outputs[1].ord)
          /\ p # <<>>

\* C15: two applications of the extractor to the same tree, each from an
\* empty context, give the same rows in the same order.
C15_Deterministic ==
    \A i, j \in DOMAIN outputs : outputs[i].rows = outputs[j].rows

\* C16: one priority order of the aliases decides, at every node and in every
\* run, which of two aliases of a slot gives the value.
C16_FixedPriority ==
    \E o \in Orders :
        \A i \in DOMAIN outputs :
            outputs[i].rows = Emits(input, EmptyCtx, 0, DefaultMaxDepth, o)

DotText == <<"1", "2", ".", "5", "0">>

\* C17: a price written "12,50 L" (decimal comma, currency sign) under a price
\* alias comes out as 12.50, the same as its decimal-dot form.
C17_DecimalComma ==
    \A i \in DOMAIN outputs : \A p \in MapPaths(input) :
        LET c == CtxAt(input, p, outputs[i].ord)
        IN  (Truthy(c["name"]) /\ c["price"] = Str(LariText))
            => /\ AsPrice(Str(DotText)) = Price(1250)
               /\ \E j \in DOMAIN outputs[i].rows :
                     /\ outputs[i].rows[j].price = Price(1250)
                     /\ outputs[i].rows[j].name = Strip(c["name"].s)
                     /\ outputs[i].rows[j].cat = c["cat"]

C17_Witness ==
    /\ outputs # <<>>
    /\ input = Leaf(Str(<<"A">>), Absent, Str(LariText), Absent, Absent)
    /\ Len(outputs[1].rows) = 1
    /\ outputs[1].rows[1].price = Price(1250)

\* C18: a value with a thousands separator and a decimal part parses to the
\* full amount: "1,234.50" and "1.234,50" both give 1234.50.
C18_Thousands ==
    (outputs # <<>>
        /\ input \in {Str(<<"1", ",", "2", "3", "4", ".", "5", "0">>),
                      Str(<<"1", ".", "2", "3", "4", ",", "5", "0">>)})
    => outputs[1] = Price(123450)

\* the (category, subcategory, name, image, price) of a written row
C20_RowKey(r) == <<r.cat, r.sub, r.name, r.image, r.price>>

\* the same for the arguments of an add() call
C20_CallKey(c) ==
    <<IF c.cat.kind = "str" THEN c.cat.s ELSE <<>>,
      IF c.sub.kind = "str" THEN c.sub.s ELSE <<>>, c.name, c.image, c.price>>

\* C20: whatever add() calls the response callback and the page scrape have
\* made, no two written rows have the same key, a call with a key already
\* written writes nothing, and count is the number of rows written.
C20_SinkDedup ==
    /\ \A i, j \in DOMAIN sink.rows :
          i # j => C20_RowKey(sink.rows[i]) # C20_RowKey(sink.rows[j])
    /\ {C20_RowKey(sink.rows[i]) : i \in DOMAIN sink.rows}
          = {C20_CallKey(outputs[i]) : i \in DOMAIN outputs}
    /\ sink.count = Len(sink.rows)

\* a key was offered twice, by the callback and by the page scrape
C20_Witness ==
    /\ Len(outputs) > Len(sink.rows)
    /\ Len(sink.rows) >= 2
    /\ \E i, j \in DOMAIN outputs :
          /\ i < j
          /\ C20_CallKey(outputs[i]) = C20_CallKey(outputs[j])
          /\ outputs[i].cat # NullNode

\* C11: the on-sale flag is true exactly when a previous price is present
\* and strictly lower than the regular price (the product objects carry no
\* sale window); a previous price equal to or above the price leaves it false.
C11_OnSaleIff ==
    outputs # <<>> =>
        LET flag == IF outputs[1].by = "parse_product"
                    THEN outputs[1].flag = "True" ELSE outputs[1].flag = TRUE
            lower == /\ HasKey(input, "previousPrice")
                     /\ ValueAt(input, "previousPrice").kind = "num"
                     /\ ValueAt(input, "previousPrice").n < ValueAt(input, "price").n
        IN  flag <=> lower

\* C19: a price that cannot be parsed is absent, never zero: as_price gives
\* no price for a text without digits, and no scraper records a price of 0
\* (the cards drawn carry the price text "5,99" or an unparseable one).
C19_UnparseableAbsent ==
    /\ AsPrice(Str(<<"n", "/", "a">>)) = NoPrice
    /\ AsPrice(Str(<<>>)) = NoPrice
    /\ \A i \in DOMAIN prices : prices[i].price # "0.0"
    /\ \A i \in DOMAIN pending : pending[i].price # "0.0"

\* the items of the tree drawn, and the row an item must give: the root's
\* category, the item's name, the item's price
C21_Items == ValueAt(input, "items").kids

C21_CentsOf(text) == IF text = LariText THEN 1250 ELSE 700

C21_RowFor(item) ==
    [cat |-> <<"D">>, sub |-> <<>>, name |-> ValueAt(item, "name").s,
     image |-> <<>>, price |-> Price(C21_CentsOf(ValueAt(item, "price").s))]

\* C21 as stated: a category with a list of items, each with a name and a
\* price, gives exactly one written row per item and no other row.
C21_OneRowPerItem ==
    sink.rows # <<>> =>
        /\ Len(sink.rows) = Len(C21_Items)
        /\ \A i \in DOMAIN C21_Items : sink.rows[i] = C21_RowFor(C21_Items[i].node)

\* C21 amended: one written row per distinct item (two items with the same
\* name and price give one row), in the order the items first occur, and no
\* other row.
C21_OneRowPerDistinctItem ==
    sink.rows # <<>> =>
        LET due == {C21_RowFor(C21_Items[i].node) : i \in DOMAIN C21_Items}
        IN  /\ {sink.rows[i] : i \in DOMAIN sink.rows} = due
            /\ Len(sink.rows) = Cardinality(due)
            /\ sink.count = Cardinality(due)
            /\ \A i, j \in DOMAIN sink.rows :
                  i < j =>
                     \E a, b \in DOMAIN C21_Items :
                        /\ a < b
                        /\ sink.rows[i] = C21_RowFor(C21_Items[a].node)
                        /\ sink.rows[j] = C21_RowFor(C21_Items[b].node)

\* two different items were extracted, and a tree with a repeated item too
C21_Witness ==
    /\ Len(C21_Items) = 2
    /\ Len(sink.rows) = 2
    /\ sink.rows[1].name # sink.rows[2].name
    /\ sink.rows[1].cat = <<"D">>

\* positions of the requests in the trace of the call
C22_Requests == {i \in DOMAIN crawl.trace : crawl.trace[i] = "request"}

\* the request at position i was the k-th of the call
C22_Rank(i) == Cardinality({j \in C22_Requests : j <= i})

C22_FailedAt(i) == ~Succeeds(crawl.script, crawl.plan[C22_Rank(i)])

\* C22: a call of get_soup / get_json makes at most MAX_RETRIES requests,
\* none after the first success, sleeps after each failed request and only
\* then, and returns None only when MAX_RETRIES requests have all failed.
C22_BoundedRetry ==
    crawl.script \in Fetchers =>
        /\ Cardinality(C22_Requests) <= MAX_RETRIES
        /\ \A i \in C22_Requests :
              IF C22_FailedAt(i)
              THEN i < Len(crawl.trace) /\ crawl.trace[i + 1] = "sleep"
              ELSE i = Len(crawl.trace) /\ crawl.result = "ok"
        /\ \A i \in DOMAIN crawl.trace :
              crawl.trace[i] = "sleep" =>
                 i > 1 /\ (i - 1) \in C22_Requests /\ C22_FailedAt(i - 1)
        /\ crawl.result = "ok" => \E i \in C22_Requests : ~C22_FailedAt(i)
        /\ crawl.result = "none" =>
              /\ Cardinality(C22_Requests) = MAX_RETRIES
              /\ \A i \in C22_Requests : C22_FailedAt(i)

\* a call gave up after its last attempt
C22_Witness ==
    /\ crawl.script \in Fetchers
    /\ crawl.result = "none"
    /\ crawl.trace = <<"request", "sleep", "request", "sleep", "request", "sleep">>

\* the step requests a page
PageAsked == crawl.phase = "pages" /\ crawl'.trace # crawl.trace

\* C23: when the fetch of a page fails on all its attempts, only that page is
\* skipped: the run goes on with the next page of the category, keeps what it
\* gathered, and counts the failure.
C23_FailedPageSkipped ==
    [][(PageAsked /\ crawl.script \in {"new2", "html"}
            /\ crawl'.resp = FailedResp /\ crawl.page < MaxPages)
        => /\ crawl'.phase = "pages"
           /\ crawl'.page = crawl.page + 1
           /\ crawl'.kept = crawl.kept
           /\ crawl'.errors = crawl.errors + 1]_vars

\* C25: when run_scrape has ended, every well-formed category of the list was
\* processed, whatever entry came before it, and what was gathered is saved.
C25_CategoriesAllProcessed ==
    (crawl.script = "new3" /\ crawl.phase \in {"done", "fatal"})
    => /\ \A c \in DOMAIN crawl.cats :
             crawl.cats[c] = "ok"
                => \E i \in DOMAIN crawl.trace : crawl.trace[i].cat = c
       /\ crawl.saved = crawl.kept

\* the page requests a trace holds for category c, in order
RECURSIVE C26_PagesOf(_, _)
C26_PagesOf(trace, c) ==
    IF trace = <<>> THEN <<>>
    ELSE IF Head(trace).cat = c
         THEN <<Head(trace).page>> \o C26_PagesOf(Tail(trace), c)
         ELSE C26_PagesOf(Tail(trace), c)

\* a body signals continuation when one of its continuation members is true;
\* an HTML listing has no such member and a page with links stands for it
C26_Signalled(script, r) ==
    script = "html" \/ r.hnp = "true" \/ r.pag = "true" \/ r.hn = "true"

\* C26: the pages of a category are requested as 1, 2, 3, .. with no gap and
\* no repeat; page N+1 is requested only after page N was fetched, had
\* products and signalled continuation; the loop is left at the first page
\* that failed, was empty or did not signal continuation.
C26_PagesInOrder ==
    [][PageAsked =>
          LET c == crawl.cat
              pages == C26_PagesOf(crawl'.trace, c)
              r == crawl'.resp
          IN  /\ pages = [i \in 1..Len(pages) |-> i]
              /\ pages[Len(pages)] = crawl.page
              /\ \A d \in DOMAIN crawl.cats :
                    d > c => C26_PagesOf(crawl'.trace, d) = <<>>
              /\ crawl.page > 1
                    => /\ crawl.resp.got
                       /\ crawl.resp.items > 0
                       /\ C26_Signalled(crawl.script, crawl.resp)
              /\ (~r.got \/ r.items = 0 \/ ~C26_Signalled(crawl.script, r))
                    => crawl'.phase # "pages"]_vars

\* a second page was requested, and a loop was left at a page without signal
C26_Witness ==
    /\ crawl.script \in {"new2", "new3"}
    /\ Len(C26_PagesOf(crawl.trace, 1)) = 2
    /\ crawl.phase = "cats"
    /\ crawl.resp.got /\ crawl.resp.items > 0

\* C27: after a page with products, the JSON adapters go on to the next page
\* exactly when hasNextPage, pagination.hasNext or hasNext is true.
C27_ContinueIffAnyTrue ==
    (crawl.script \in {"new2", "new3"} /\ crawl.resp.got
        /\ crawl.resp.items > 0 /\ crawl.resp.pag # "pagination_null")
    => (crawl.phase = "pages"
           <=> (crawl.resp.hnp = "true" \/ crawl.resp.pag = "true"
                   \/ crawl.resp.hn = "true"))

\* C29: once a stop was asked for, the run requests no further page: the
\* request is seen at the next boundary between pages or categories.
C29_StopHonoured ==
    [][crawl.stop => crawl'.trace = crawl.trace]_vars

\* C30: when a run crashes, what it gathered on the pages before the one it
\* was processing is already saved.
C30_PagesDurable ==
    crawl.phase = "fatal"
    => \A i \in DOMAIN crawl.kept :
          crawl.kept[i] # PageEvent(crawl.cat, crawl.page)
             => \E j \in DOMAIN crawl.saved : crawl.saved[j] = crawl.kept[i]

\* C24: an error met while one product is processed does not end the run:
\* the later products of the page and the rest of the run are still processed.
C24_ProductErrorContained ==
    crawl.script = "spar_import"
    => ~(crawl.phase = "aborted" /\ crawl.why = "card")

\* C28: between two consecutive page requests of a run there is a delay.
C28_DelayBetweenPages ==
    crawl.script = "spar_import"
    => \A i \in DOMAIN crawl.trace :
          (i < Len(crawl.trace) /\ crawl.trace[i] # SleepEvent)
             => crawl.trace[i + 1] = SleepEvent

\* C31: by the time run() is left, on any path (normal end, an exception at
\* any step, cancellation), RowSink.close has been called on the sink the
\* run opened.
C31_SinkClosedOnExit ==
    (crawl.script = "spar_scraper" /\ crawl.phase = "left") => crawl.closed

\* the heights read after each scroll grow strictly up to position n
C36_Growing(hs, n) == \A k \in 2..n : hs[k] > hs[k - 1]

\* C36: auto_scroll makes at most max_steps scrolls, goes on only while
\* every scroll made the page higher, and has ended after the first scroll
\* that did not, or with the cap used up.
C36_BoundedScroll ==
    crawl.phase \in {"scroll", "dom"} =>
        /\ crawl.scrolls <= crawl.max_steps
        /\ Len(crawl.hs) = crawl.scrolls + 1
        /\ C36_Growing(crawl.hs, crawl.scrolls)
        /\ crawl.phase = "scroll" => C36_Growing(crawl.hs, crawl.scrolls + 1)
        /\ crawl.phase = "dom" =>
              \/ crawl.hs[Len(crawl.hs)] <= crawl.last_h
              \/ crawl.scrolls = crawl.max_steps

\* a call with the default cap that used all thirty scrolls
C36_Witness ==
    /\ crawl.script = "auto_scroll"
    /\ crawl.phase = "dom"
    /\ crawl.max_steps = DefaultMaxSteps
    /\ crawl.scrolls = DefaultMaxSteps
    /\ C36_Growing(crawl.hs, Len(crawl.hs))

\* depth of the map a record of a deep tree comes from
C35_DepthOf(row) == Len(row.name) - 1

\* C35: a run with depth bound max_depth ends, and no record comes from a map
\* deeper than max_depth (root at depth 0).
C35_DepthBounded ==
    \A i \in DOMAIN outputs :
        \A j \in DOMAIN outputs[i].rows :
            C35_DepthOf(outputs[i].rows[j]) <= crawl.max_depth

\* a finished run with the default bound over a tree that nests deeper,
\* with a record from depth 20
C35_Witness ==
    /\ outputs # <<>>
    /\ crawl.max_depth = DefaultMaxDepth
    /\ \E j \in DOMAIN outputs[1].rows :
          C35_DepthOf(outputs[1].rows[j]) = DefaultMaxDepth
    /\ Len(outputs[1].rows) = DefaultMaxDepth + 1
    /\ input = Chain("maps", 0, DefaultMaxDepth + 2)

\* ---- the maps of a tree in the order a depth-first walk meets them
PathBefore(q, p) ==
    \/ Len(q) < Len(p) /\ SubSeq(p, 1, Len(q)) = q
    \/ \E k \in 1..Len(q) :
          /\ k <= Len(p)
          /\ SubSeq(q, 1, k - 1) = SubSeq(p, 1, k - 1)
          /\ q[k] < p[k]

\* what the map at p defines itself for a slot (null when nothing)
OwnValue(tree, p, sl, ord) == FirstNonEmpty(Reach(tree, p), ord[sl])

\* the context of the node at p, built level by level from the root: a map
\* replaces the slots it defines and keeps the others as its parent had them
RECURSIVE C34_Ctx(_, _, _)
C34_Ctx(tree, p, ord) ==
    LET up == IF p = <<>> THEN EmptyCtx
              ELSE C34_Ctx(tree, SubSeq(p, 1, Len(p) - 1), ord)
    IN  IF Reach(tree, p).kind # "map" THEN up
        ELSE [sl \in Slots |->
                IF OwnValue(tree, p, sl, ord).kind # "null"
                THEN OwnValue(tree, p, sl, ord) ELSE up[sl]]

\* the maps a run emits from, by C34_Ctx
C34_Emitting(tree, ord) ==
    {p \in MapPaths(tree) : LooksLikeProduct(C34_Ctx(tree, p, ord))}

\* C34: the record emitted at a map is made from the merged context: for
\* each slot the map's own value when it defines one, else the value of the
\* nearest ancestor that does; records come in the order of the walk.
C34_MergedContext ==
    \A i \in DOMAIN outputs :
        LET ord == outputs[i].ord
            em == C34_Emitting(input, ord)
            rank(p) == 1 + Cardinality({q \in em : PathBefore(q, p)})
        IN  /\ Len(outputs[i].rows) = Cardinality(em)
            /\ \A p \in em :
                  outputs[i].rows[rank(p)] = RowOf(C34_Ctx(input, p, ord))

\* a run over a tree whose root gives a category and a name, and whose child
\* map gives its own name (replacing the root's) and no category (keeping it)
C34_Witness ==
    /\ outputs # <<>>
    /\ Len(outputs[1].rows) = 1
    /\ outputs[1].rows[1].name = <<"A">>
    /\ outputs[1].rows[1].cat = Str(<<"D">>)
    /\ OwnValue(input, <<>>, "name", outputs[1].ord) = Str(<<"P">>)
    /\ OwnValue(input, <<3>>, "cat", outputs[1].ord) = NullNode

\* the values a record emitted at p may hold for a slot: those defined by
\* the nodes from the root down to p, or none
C37_Sources(tree, p, sl, ord) ==
    {NullNode} \cup {OwnValue(tree, SubSeq(p, 1, k), sl, ord) : k \in 0..Len(p)}

\* every slot of the record comes from the path from the root to p
C37_FromPath(row, tree, p, ord) ==
    /\ row.cat \in C37_Sources(tree, p, "cat", ord)
    /\ row.sub \in C37_Sources(tree, p, "sub", ord)
    /\ row.name \in {Strip(StrOf(v)) : v \in C37_Sources(tree, p, "name", ord)}
    /\ row.image \in {Strip(StrOf(v)) : v \in C37_Sources(tree, p, "image", ord)}
    /\ row.price \in {AsPrice(v) : v \in C37_Sources(tree, p, "price", ord)}

\* C37: context flows only downward: every record holds, slot by slot, only
\* values defined on the path from the root to one map; nothing found in a
\* sibling or in a descendant of that map shows in it.
C37_DownwardOnly ==
    \A i \in DOMAIN outputs :
        \A j \in DOMAIN outputs[i].rows :
            \E p \in MapPaths(input) :
                C37_FromPath(outputs[i].rows[j], input, p, outputs[i].ord)

\* a run over two sibling maps in a list, the first with a price and the
\* second without, both emitted
C37_Witness ==
    /\ outputs # <<>>
    /\ Len(outputs[1].rows) = 2
    /\ outputs[1].rows[1].price.ok
    /\ ~outputs[1].rows[2].price.ok
    /\ outputs[1].rows[1].cat = outputs[1].rows[2].cat
    /\ Reach(input, <<2>>).kind = "seq"

\* C39: when an ingestion entry point has been left, on any path, the
\* database session it opened has been closed; so has the session of an API
\* request.
C39_SessionClosed ==
    /\ (crawl.phase = "idle" /\ crawl.hist # <<>>) => crawl.session = "closed"
    /\ crawl.dep # "open"

\* C32: no two Category rows share name and store, and a category a scraper
\* looked up for its store is a category of that store.
C32_CategoryPerStore ==
    /\ \A a, b \in crawl.cats :
          (a.name = b.name /\ a.store = b.store) => a = b
    /\ crawl.lookup.hit =>
          crawl.lookup.owner \in {crawl.lookup.store, Null}

\* items of the catalogue with a name and a price that parses
C38_ValidItems(catalog) ==
    LET n(items) == Cardinality({k \in DOMAIN items :
                                    /\ items[k].name # Null
                                    /\ DecimalOf(items[k].text) # Null})
    IN  IF Len(catalog) = 1 THEN n(catalog[1].items)
        ELSE n(catalog[1].items) + n(catalog[2].items)

\* C38: a run that follows a run of the same scraper over the same
\* catalogue, both without a failure, creates no Product, Category or Store
\* row, leaves the Product rows as they were, and adds one Price row for
\* each item with a valid price and no other.
C38_RerunIdempotent ==
    [][(/\ crawl.phase # "idle" /\ crawl'.phase = "idle"
        /\ Len(crawl'.hist) >= 2
        /\ LET n == Len(crawl'.hist)
           IN  /\ crawl'.hist[n].script = crawl'.hist[n - 1].script
               /\ crawl'.hist[n].ran /\ crawl'.hist[n - 1].ran)
       => /\ products' = crawl.base.products
          /\ crawl'.cats = crawl.base.cats
          /\ crawl'.stores = crawl.base.stores
          /\ Len(prices') + Len(pending') - crawl.base.nprices
                = C38_ValidItems(crawl.catalog)]_vars

====
